---- MODULE Spec2Model ----
(***************************************************************************)
(* A model of the active-set QP back-end of OpenSoT,                       *)
(* OpenSoT::solvers::QPOasesProblem (src/src/solvers/QPOasesProblem.cpp).  *)
(*                                                                         *)
(* A matrix is modelled by its shape and a content tag, a vector by the    *)
(* sequence of its entries.  The underlying qpOASES::SQProblem is an       *)
(* external library: its calls (init, hotstart) are modelled by their      *)
(* interface only, the outcome of each call being chosen by the            *)
(* environment.                                                            *)
(*                                                                         *)
(* Every public method is one action.  The body of a method is a pure      *)
(* operator from the object's state (a record s) to the set of the states  *)
(* in which the call can end, so that a method calling another one         *)
(* (updateTask, solve and updateProblem do) composes the operators.        *)
(***************************************************************************)
EXTENDS Integers, Sequences, FiniteSets, TLC

VARIABLES
    H, g,                 \* _H, _g          cost function
    A, lA, uA,            \* _A, _lA, _uA    general constraints
    l, u,                 \* _l, _u          box bounds
    solution,             \* _solution
    dual_solution,        \* _dual_solution
    bounds,               \* *_bounds        active bounds of the last solve
    constraints,          \* *_constraints   active constraints of the last solve
    problem,              \* *_problem       the qpOASES::SQProblem object
    opt,                  \* *_opt           the last configured options
    nWSR,                 \* _nWSR
    NDEBUG,               \* build configuration: TRUE iff assertions are compiled out
    aborted,              \* the process was terminated by a failed assertion
    op,                   \* the public method that has just returned to the
                          \* caller, "idle" once the caller has taken the result
    ret,                  \* what it returned
    trace,                \* what it did, in order
    constraint,           \* an OpenSoT::Constraint: the sizes of its fields
    answer,               \* the classification predicate of the Constraint
                          \* evaluated last, and its value
    supportPolygon,       \* the number of vertices of the convex hull of the
                          \* robot's support polygon, 0 before it is computed
    tasks,                \* the Tasks that are not Aggregated, by handle
    instances,            \* the Constraint instances attached to Tasks, by
                          \* handle
    aggregates,           \* the Aggregated tasks, by handle
    q,                    \* the configuration of the robot in a closed loop
    tick,                 \* the ticks the closed loop has run
    cartesian,            \* a tasks::velocity::Cartesian
    cascade               \* a Stack and the last hierarchical solve of it

\* the Tasks, their Constraints and the loop that drives them
scene == <<tasks, instances, aggregates, q, tick, cartesian, cascade>>

vars == <<H, g, A, lA, uA, l, u, solution, dual_solution, bounds, constraints,
          problem, opt, nWSR, NDEBUG, aborted, op, ret, trace,
          constraint, answer, supportPolygon, scene>>

----------------------------------------------------------------------------
(* Bounds of the model and program constants *)

\* the largest row/column count of an input
MaxDim == 2

\* qpOASES::INFTY, the infinity sentinel (scaled down from 1.0e20)
INFTY == 100

\* the value the constructor gives _nWSR
DefaultNWSR == 132

\* the largest number of constraint rows of an input
MaxRows == 1

Rows == 0..MaxRows

\* Content versions of the inputs.  Version v tags H, g and A with v and
\* gives the limits the magnitude Magnitude(v): one inside the sentinel,
\* one beyond it ("no limit" written as a very large number).
Versions == {1, 2}
Magnitude(v) == IF v = 1 THEN 50 ELSE 200

\* A third version has lower limits beyond the sentinel too: a limit of a
\* very large positive number on both sides
AllVersions == {1, 2, 3}
LowerLimit(v) == IF v = 3 THEN Magnitude(v) ELSE -Magnitude(v)
UpperLimit(v) == Magnitude(v)

\* primal values the solver may report
SolVals == {1, 2}

Mat(r, c, t) == [rows |-> r, cols |-> c, tag |-> t]
Vec(n, v)    == [i \in 1..n |-> v]

----------------------------------------------------------------------------
(* The object's state as one record, and the bookkeeping of a call *)

\* The state at the start of a call
State ==
    [H |-> H, g |-> g, A |-> A, lA |-> lA, uA |-> uA, l |-> l, u |-> u,
     solution |-> solution, dual_solution |-> dual_solution,
     bounds |-> bounds, constraints |-> constraints,
     problem |-> problem, opt |-> opt, nWSR |-> nWSR,
     wsr |-> nWSR,         \* the local "int nWSR" of the running method
     aborted |-> FALSE, ret |-> TRUE, trace |-> <<>>]

Emit(s, e, ok) == [s EXCEPT !.trace = Append(@, [ev |-> e, ok |-> ok])]

Return(s, r) == [s EXCEPT !.ret = r]

\* assert(cond) with cond false: terminates the process when assertions are
\* compiled in, and is nothing when they are compiled out
AssertFails(s) ==
    IF NDEBUG THEN s ELSE [Emit(s, "abort", FALSE) EXCEPT !.aborted = TRUE]

LastOk(s) == s.trace[Len(s.trace)].ok

----------------------------------------------------------------------------
(* checkINFTY *)

ClampLower(v) == IF v < -INFTY THEN -INFTY ELSE v

ClampUpper(v) == IF v > INFTY THEN INFTY ELSE v

\* The first loop runs over _lA.rows() and indexes _uA too, the second over
\* _l.rows() and indexes _u too.  An index past the end of _uA or _u is
\* undefined behaviour: Eigen's index assertion terminates the process when
\* assertions are compiled in; when they are compiled out the access is out
\* of the vector, and either the process goes on (the trace records the
\* access, ok = FALSE) or it is terminated by the fault.
checkINFTY(s) ==
    LET constraints_size == Len(s.lA)
        bounds_size      == Len(s.l)
        inside == constraints_size <= Len(s.uA) /\ bounds_size <= Len(s.u)
        s1 == [s EXCEPT
                 !.lA = [i \in 1..Len(s.lA) |-> ClampLower(s.lA[i])],
                 !.uA = [i \in 1..Len(s.uA) |->
                            IF i <= constraints_size THEN ClampUpper(s.uA[i])
                                                     ELSE s.uA[i]],
                 !.l  = [i \in 1..Len(s.l) |-> ClampLower(s.l[i])],
                 !.u  = [i \in 1..Len(s.u) |->
                            IF i <= bounds_size THEN ClampUpper(s.u[i])
                                                ELSE s.u[i]]]
    IN  IF inside THEN {Emit(s1, "checkINFTY", TRUE)}
        ELSE IF NDEBUG
            THEN {Emit(s1, "checkINFTY", FALSE),
                  [Emit(s, "fault", FALSE) EXCEPT !.aborted = TRUE]}
        ELSE {[Emit(s, "abort", FALSE) EXCEPT !.aborted = TRUE]}

----------------------------------------------------------------------------
(* The calls on the underlying qpOASES::SQProblem.  A call of the library  *)
(* can end in several ways, so every operator below gives the set of the   *)
(* states in which the call can end.                                       *)

SolverEvents == {"init", "hotstart", "warmstart"}

\* the limits handed to the solver: _l.data(), _u.data(), _lA.data(),
\* _uA.data()
Handed(s) == [l |-> s.l, u |-> s.u, lA |-> s.lA, uA |-> s.uA]

\* A call of the solver given the constructor's budget whatever is configured
HandDefault(s, kind) ==
    [s EXCEPT !.trace = Append(@, [ev |-> "call", ok |-> TRUE, kind |-> kind,
                                   nWSR |-> DefaultNWSR, data |-> Handed(s)])]

\* the trace records what a call of the solver is given: the limits and the
\* iteration budget, the local nWSR
Hand(s, kind) ==
    [s EXCEPT !.trace = Append(@, [ev |-> "call", ok |-> TRUE, kind |-> kind,
                                   nWSR |-> s.wsr, data |-> Handed(s)])]

\* the solver takes nWSR by reference and leaves in it the number of working
\* set recalculations it has performed: none, or up to the whole budget
Used(budget) == {0, budget}

\* _problem->init(...), _problem->hotstart(...) and the init(...) seeded with
\* _solution, _dual_solution, _bounds, _constraints: succeeds or fails
SolverCall(s, kind) ==
    { Emit([Hand(s, kind) EXCEPT !.wsr = w], kind, ok) :
        ok \in BOOLEAN, w \in Used(s.wsr) }

\* resize _solution and _dual_solution to the problem's sizes, then
\* getPrimalSolution, getDualSolution, getBounds, getConstraints
GetSolution(s) ==
    { [s EXCEPT
        !.solution      = [n |-> s.problem.nV, x |-> x],
        !.dual_solution = [n |-> s.problem.nV + s.problem.nC, x |-> x],
        !.bounds        = [n |-> s.problem.nV, x |-> x],
        !.constraints   = [n |-> s.problem.nC, x |-> x]] : x \in SolVals }

\* getPrimalSolution returns SUCCESSFUL_RETURN iff the QP is solved, which it
\* is when the solver call before it succeeded
PrimalAvailable(s) == LastOk(s)

\* A re-creation that forgets the Hessian type of the problem it replaces
NewProblemUnknownHessian(s) ==
    LET fresh == [nV |-> s.H.cols, nC |-> s.A.rows,
                  hessianType |-> "HST_UNKNOWN", options |-> "library"]
        s1 == Emit([s EXCEPT !.problem = fresh], "new", TRUE)
    IN  Emit([s1 EXCEPT !.problem.options = s.opt], "setOptions", TRUE)

\* _problem.reset(); _problem = new SQProblem(nV, nC, hessian_type);
\* _problem->setOptions(*_opt)
NewProblem(s) ==
    LET hessian_type          == s.problem.hessianType
        number_of_variables   == s.H.cols
        number_of_constraints == s.A.rows
        fresh == [nV |-> number_of_variables, nC |-> number_of_constraints,
                  hessianType |-> hessian_type, options |-> "library"]
        s1 == Emit([s EXCEPT !.problem = fresh], "new", TRUE)
    IN  Emit([s1 EXCEPT !.problem.options = s.opt], "setOptions", TRUE)

----------------------------------------------------------------------------
(* initProblem *)

\* return of initProblem: the trace records the value returned
InitReturn(s, r) == Return(Emit(s, "initProblem_ret", r), r)

\* a size check of initProblem that fails: the sizes are logged, the
\* assertion is evaluated, and false is returned
InitInvalid(s, which) ==
    LET s1 == AssertFails(Emit(s, which, FALSE))
    IN  IF s1.aborted THEN s1 ELSE InitReturn(s1, FALSE)

\* initProblem from its size checks on
Validated(s2) ==
    IF s2.aborted THEN {s2}
    ELSE IF ~(Len(s2.l) = Len(s2.u)) THEN {InitInvalid(s2, "invalid_l_u")}
    ELSE IF ~(Len(s2.lA) = s2.A.rows) THEN {InitInvalid(s2, "invalid_lA_A")}
    ELSE IF ~(Len(s2.lA) = Len(s2.uA)) THEN {InitInvalid(s2, "invalid_lA_uA")}
    ELSE UNION { IF ~LastOk(s3) THEN {InitReturn(s3, FALSE)}
                 ELSE { InitReturn(s4, PrimalAvailable(s3)) :
                            s4 \in GetSolution(s3) }
                 : s3 \in SolverCall([s2 EXCEPT !.wsr = s2.nWSR], "init") }

initProblem(s, a) ==
    LET s1 == [Emit(s, "initProblem", TRUE) EXCEPT
                  !.H = a.H, !.g = a.g, !.A = a.A, !.lA = a.lA,
                  !.uA = a.uA, !.l = a.l, !.u = a.u]
    IN  UNION { Validated(s2) : s2 \in checkINFTY(s1) }

Stored(s) == [H |-> s.H, g |-> s.g, A |-> s.A, lA |-> s.lA, uA |-> s.uA,
              l |-> s.l, u |-> s.u]

----------------------------------------------------------------------------
(* updateTask, updateConstraints, updateBounds, updateProblem *)

\* An updateTask whose in-place branch stores nothing
updateTaskKeeps(s, Hn, gn) ==
    IF ~(Len(s.g) = s.H.rows)
        THEN {Return(AssertFails(Emit(s, "invalid_g_H", FALSE)), FALSE)}
    ELSE IF ~(s.H.cols = Hn.cols)
        THEN {Return(Emit(s, "reject_H_cols", FALSE), FALSE)}
    ELSE IF s.H.rows = Hn.rows
        THEN {Return(s, TRUE)}
    ELSE LET s1 == [s EXCEPT !.H = Hn, !.g = gn]
             s2 == NewProblem(s1)
         IN  initProblem(s2, Stored(s2))

updateTask(s, Hn, gn) ==
    IF ~(Len(s.g) = s.H.rows)
        THEN {Return(AssertFails(Emit(s, "invalid_g_H", FALSE)), FALSE)}
    ELSE IF ~(s.H.cols = Hn.cols)
        THEN {Return(Emit(s, "reject_H_cols", FALSE), FALSE)}
    ELSE IF s.H.rows = Hn.rows
        THEN {Return([s EXCEPT !.H = Hn, !.g = gn], TRUE)}
    ELSE LET s1 == [s EXCEPT !.H = Hn, !.g = gn]
             s2 == NewProblem(s1)
         IN  initProblem(s2, Stored(s2))

\* An updateConstraints that stores its arguments before it checks them
updateConstraintsStoresFirst(s, An, lAn, uAn) ==
    LET s0 == [s EXCEPT !.A = An, !.lA = lAn, !.uA = uAn]
    IN  IF ~(An.cols = s.H.cols)
            THEN {Return(Emit(s0, "reject_A_cols", FALSE), FALSE)}
        ELSE IF ~(Len(lAn) = An.rows)
            THEN {Return(Emit(s0, "reject_lA_A", FALSE), FALSE)}
        ELSE IF ~(Len(lAn) = Len(uAn))
            THEN {Return(Emit(s0, "reject_lA_uA", FALSE), FALSE)}
        ELSE IF An.rows = s.A.rows
            THEN {Return(s0, TRUE)}
        ELSE initProblem(NewProblem(s0), Stored(s0))

updateConstraints(s, An, lAn, uAn) ==
    IF ~(An.cols = s.H.cols)
        THEN {Return(Emit(s, "reject_A_cols", FALSE), FALSE)}
    ELSE IF ~(Len(lAn) = An.rows)
        THEN {Return(Emit(s, "reject_lA_A", FALSE), FALSE)}
    ELSE IF ~(Len(lAn) = Len(uAn))
        THEN {Return(Emit(s, "reject_lA_uA", FALSE), FALSE)}
    ELSE IF An.rows = s.A.rows
        THEN {Return([s EXCEPT !.A = An, !.lA = lAn, !.uA = uAn], TRUE)}
    ELSE LET s1 == [s EXCEPT !.A = An, !.lA = lAn, !.uA = uAn]
             s2 == NewProblem(s1)
         IN  initProblem(s2, Stored(s2))

updateBounds(s, ln, un) ==
    IF ~(Len(ln) = Len(s.l))
        THEN {Return(Emit(s, "reject_l", FALSE), FALSE)}
    ELSE IF ~(Len(un) = Len(s.u))
        THEN {Return(Emit(s, "reject_u", FALSE), FALSE)}
    ELSE IF ~(Len(ln) = Len(un))
        THEN {Return(Emit(s, "reject_l_u", FALSE), FALSE)}
    ELSE {Return([s EXCEPT !.l = ln, !.u = un], TRUE)}

\* One step of updateProblem, "success = success && update(...)": the update
\* runs, and its result is recorded
Step(name, done) ==
    { IF r.aborted THEN r ELSE Emit(r, name, r.ret) : r \in done }

\* An updateProblem that runs the three updates whatever they return
updateProblemAll(s, a) ==
    UNION { IF s1.aborted THEN {s1}
            ELSE UNION { IF s2.aborted THEN {s2}
                         ELSE { IF s3.aborted THEN s3
                                ELSE Return(s3, s1.ret /\ s2.ret /\ s3.ret)
                                : s3 \in Step("updateTask",
                                              updateTask(s2, a.H, a.g)) }
                         : s2 \in Step("updateConstraints",
                                       updateConstraints(s1, a.A, a.lA, a.uA)) }
            : s1 \in Step("updateBounds", updateBounds(s, a.l, a.u)) }

\* success = success && update...(): a later update runs only when every
\* earlier one returned true
updateProblem(s, a) ==
    UNION { IF s1.aborted \/ ~s1.ret THEN {s1}
            ELSE UNION { IF s2.aborted \/ ~s2.ret THEN {s2}
                         ELSE Step("updateTask", updateTask(s2, a.H, a.g))
                         : s2 \in Step("updateConstraints",
                                       updateConstraints(s1, a.A, a.lA, a.uA)) }
            : s1 \in Step("updateBounds", updateBounds(s, a.l, a.u)) }

----------------------------------------------------------------------------
(* solve *)

\* An end of solve() that reports failure
FinishFalse(got) == { Return(s4, FALSE) : s4 \in GetSolution(got) }

\* the end of solve(), after a solver call that succeeded
Finish(got) ==
    UNION { IF ~PrimalAvailable(got) THEN initProblem(s4, Stored(s4))
            ELSE {Return(s4, TRUE)}
            : s4 \in GetSolution(got) }

\* A solve() that warm-starts whatever the hotstart returned
AttemptsWarmAlways(s1) ==
    IF s1.aborted THEN {s1}
    ELSE UNION { UNION { IF LastOk(s3) THEN Finish(s3)
                         ELSE initProblem(s3, Stored(s3))
                         : s3 \in SolverCall(s2, "warmstart") }
                 : s2 \in SolverCall(s1, "hotstart") }

\* solve() from the hotstart on
Attempts(s1) ==
    IF s1.aborted THEN {s1}
    ELSE UNION { IF LastOk(s2) THEN Finish(s2)
                 ELSE UNION { IF LastOk(s3) THEN Finish(s3)
                              ELSE initProblem(s3, Stored(s3))
                              : s3 \in SolverCall(s2, "warmstart") }
                 : s2 \in SolverCall(s1, "hotstart") }

solve(s) ==
    UNION { Attempts(s1) : s1 \in checkINFTY([s EXCEPT !.wsr = s.nWSR]) }

----------------------------------------------------------------------------
(* The inputs of the calls *)

\* A problem with n variables and r constraints, content version v
ProblemData(n, r, v) ==
    [H |-> Mat(n, n, v), g |-> Vec(n, v), A |-> Mat(r, n, v),
     lA |-> Vec(r, LowerLimit(v)), uA |-> Vec(r, UpperLimit(v)),
     l |-> Vec(n, LowerLimit(v)), u |-> Vec(n, UpperLimit(v))]

\* The same with the size of one part set to k
Defects ==
    {"none", "H_rows", "Hg_rows", "H_cols", "g", "A_cols", "lA", "uA", "l", "u"}

\* the defects that the validation of initProblem is about
SizeDefects == {"none", "lA", "uA", "l", "u"}

WithDefect(a, d, k) ==
    CASE d = "none"   -> a
      [] d = "H_rows" -> [a EXCEPT !.H.rows = k]
      [] d = "Hg_rows" -> [a EXCEPT !.H.rows = k, !.g = Vec(k, a.H.tag)]
      [] d = "H_cols" -> [a EXCEPT !.H.cols = k]
      [] d = "g"      -> [a EXCEPT !.g = Vec(k, a.H.tag)]
      [] d = "A_cols" -> [a EXCEPT !.A.cols = k]
      [] d = "lA"     -> [a EXCEPT !.lA = Vec(k, LowerLimit(a.H.tag))]
      [] d = "uA"     -> [a EXCEPT !.uA = Vec(k, UpperLimit(a.H.tag))]
      [] d = "l"      -> [a EXCEPT !.l = Vec(k, LowerLimit(a.H.tag))]
      [] d = "u"      -> [a EXCEPT !.u = Vec(k, UpperLimit(a.H.tag))]

\* the size a defect puts in the place of n
Other(n) == (n % MaxDim) + 1

\* Problems of every shape, each whole or with one part of another size
InputsWith(D, V) ==
    { WithDefect(ProblemData(nrv[1], nrv[2], nrv[3]), d, Other(nrv[1])) :
        nrv \in (1..MaxDim) \X Rows \X V, d \in D }

ShapeInputs == InputsWith(Defects, {1})

InitInputs == InputsWith(SizeDefects, {1})

\* Problems of MaxDim variables of every content version, well-formed
ValueInitInputs ==
    { ProblemData(MaxDim, r, v) : r \in Rows, v \in Versions }

\* and with an H of other rows or columns
ValueInputs ==
    { WithDefect(a, d, Other(MaxDim)) :
        a \in ValueInitInputs, d \in {"none", "Hg_rows", "H_cols"} }

\* Problems of every shape and content version
AllInputs == InputsWith(Defects, Versions)

\* the same with limits on the wrong side of a sentinel too
LimitInputs == InputsWith(Defects, AllVersions)

\* the arguments of updateTask, updateConstraints and updateBounds
TaskArgs(In) == { <<b.H, b.g>> : b \in In }

ConstraintArgs(In) == { <<b.A, b.lA, b.uA>> : b \in In }

BoundArgs(In) == { <<b.l, b.u>> : b \in In }

HessianTypes == {"HST_UNKNOWN", "HST_POSDEF"}

OptionSets == {"default", "custom"}

\* the arguments of setnWSR
NWSRs == {DefaultNWSR, 10}

----------------------------------------------------------------------------
(* OpenSoT::Constraint (include/OpenSoT/Constraint.h).  A Constraint is     *)
(* modelled by the sizes of its fields: the length of a vector, the number *)
(* of rows of a matrix (and the number of columns of Aineq).               *)

\* Constraint(constraint_id, x_size): every field is empty
Constraint(x_size) ==
    [x_size |-> x_size, lowerBound |-> 0, upperBound |-> 0,
     Aeq |-> 0, beq |-> 0, Aineq |-> 0, Aineq_cols |-> 0,
     bLowerBound |-> 0, bUpperBound |-> 0]

isEqualityConstraint(c) == c.Aeq > 0

isInequalityConstraint(c) == c.Aineq > 0

isUnilateralConstraint(c) ==
    isInequalityConstraint(c) /\ (c.bLowerBound = 0 \/ c.bUpperBound = 0)

isBilateralConstraint(c) ==
    isInequalityConstraint(c) /\ ~isUnilateralConstraint(c)

hasBounds(c) == c.upperBound > 0 \/ c.lowerBound > 0

isConstraint(c) == isEqualityConstraint(c) \/ isInequalityConstraint(c)

\* a variant that calls a bound whatever has box bounds
isBoundWithRows(c) == hasBounds(c)

isBound(c) == hasBounds(c) /\ ~isConstraint(c)

Predicates ==
    {"isEqualityConstraint", "isInequalityConstraint", "isUnilateralConstraint",
     "isBilateralConstraint", "hasBounds", "isBound", "isConstraint"}

\* the virtual call of a predicate by its name
Evaluate(p, c) ==
    CASE p = "isEqualityConstraint"   -> isEqualityConstraint(c)
      [] p = "isInequalityConstraint" -> isInequalityConstraint(c)
      [] p = "isUnilateralConstraint" -> isUnilateralConstraint(c)
      [] p = "isBilateralConstraint"  -> isBilateralConstraint(c)
      [] p = "hasBounds"              -> hasBounds(c)
      [] p = "isBound"                -> isBound(c)
      [] p = "isConstraint"           -> isConstraint(c)

\* the largest number of vertices of a support polygon
MaxHull == 6

\* a variant whose upper bound misses the last row
ConvexHullShort(x_size, hullSize) ==
    [Constraint(x_size) EXCEPT !.Aineq = hullSize, !.Aineq_cols = 2,
                               !.bUpperBound = hullSize - 1]

\* a variant that bounds every row from below too
ConvexHullBilateral(x_size, hullSize) ==
    [Constraint(x_size) EXCEPT !.Aineq = hullSize, !.Aineq_cols = 2,
                               !.bLowerBound = hullSize,
                               !.bUpperBound = hullSize]

\* The support-polygon constraint as its test finds it for a hull of hullSize
\* vertices: no box bounds, no equality, hullSize rows and two columns of
\* Aineq with an upper bound for each row and no lower bound
ConvexHull(x_size, hullSize) ==
    [Constraint(x_size) EXCEPT !.Aineq = hullSize, !.Aineq_cols = 2,
                               !.bUpperBound = hullSize]

\* Constraints of every combination of field sizes
Sizes == 0..MaxDim

AllConstraints ==
    [x_size : {MaxDim}, lowerBound : Sizes, upperBound : Sizes,
     Aeq : Sizes, beq : Sizes, Aineq : Sizes, Aineq_cols : {MaxDim},
     bLowerBound : Sizes, bUpperBound : Sizes]

NoAnswer == [predicate |-> "none", value |-> FALSE]

\* no Cartesian task is constructed
NoCartesian == [built |-> FALSE]

\* no Stack is given to a hierarchical solver
NoCascade ==
    [levels |-> <<>>, solved |-> FALSE, ok |-> FALSE, x |-> <<>>,
     found |-> <<>>, calls |-> <<>>]

NoRobot == cartesian = NoCartesian /\ cascade = NoCascade

\* no Task, no Constraint instance and no loop
NoScene ==
    /\ tasks = <<>> /\ instances = <<>> /\ aggregates = <<>>
    /\ q = <<>> /\ tick = 0
    /\ NoRobot

----------------------------------------------------------------------------
(* Tasks and their combinator, OpenSoT::tasks::Aggregated.  Only the tests  *)
(* of Aggregated are among the sources (tests/tasks/TestAggregated.cpp);   *)
(* the Task and the Aggregated are modelled from their specification and   *)
(* from what the tests require.                                            *)
(*                                                                         *)
(* A number is an integer count of units of 1e-5; a gain lambda is held in *)
(* tenths.  A product with a gain is rounded toward zero, so that the      *)
(* modelled residual of a closed loop is never smaller in magnitude than   *)
(* the exact one.                                                          *)

\* the gain 1.0, the default of a Task
Unit == 10

Range(s) == { s[i] : i \in 1..Len(s) }

RECURSIVE Flatten(_)
Flatten(ss) == IF ss = <<>> THEN <<>> ELSE Head(ss) \o Flatten(Tail(ss))

\* the first occurrence of each entry of s, in the order of s
RECURSIVE Unique(_)
Unique(s) ==
    IF s = <<>> THEN <<>>
    ELSE LET front == Unique(SubSeq(s, 1, Len(s) - 1))
         IN  IF s[Len(s)] \in Range(front) THEN front
             ELSE Append(front, s[Len(s)])

\* s without the entries of t
Without(s, t) == SelectSeq(s, LAMBDA h : h \notin Range(t))

Identity(n) == [i \in 1..n |-> [j \in 1..n |-> IF i = j THEN 1 ELSE 0]]

Minus(v, w) == [i \in 1..Len(v) |-> v[i] - w[i]]

Plus(v, w) == [i \in 1..Len(v) |-> v[i] + w[i]]

\* lambda * v
Scaled(lambda, v) ==
    [i \in 1..Len(v) |->
        IF v[i] >= 0 THEN (lambda * v[i]) \div Unit
        ELSE -((lambda * (-v[i])) \div Unit)]

\* the Tasks, the Constraint instances and the Aggregated tasks at hand
World == [tasks |-> tasks, instances |-> instances, aggregates |-> aggregates]

\* A Constraint instance attached to a Task: its content (Aineq, bLowerBound,
\* bUpperBound) is that of its kind in the configuration of its last update
Instance(kind, x) == [kind |-> kind, x |-> x]

\* Constraint::update(x) of the instances cs
UpdateInstances(w, cs, x) ==
    [w EXCEPT !.instances =
        [c \in DOMAIN @ |-> IF c \in cs THEN [@[c] EXCEPT !.x = x] ELSE @[c]]]

\* a residual of the wrong sign
bReversed(t, x) == Minus(x, t.ref)

\* b of a posture task in configuration x: q_ref - q
b(t, x) == Minus(t.ref, x)

\* velocity::Postural(x): A = I, the reference is x, lambda = 1.0
Postural(id, x) ==
    LET t == [id |-> id, x_size |-> Len(x), ref |-> x, lambda |-> Unit,
              A |-> Identity(Len(x)), b |-> x, constraints |-> <<>>]
    IN  [t EXCEPT !.b = b(t, x)]

\* Task::update(x) of the Task of handle h: b is recomputed and the attached
\* Constraints are updated
update(w, h, x) ==
    LET t == w.tasks[h]
        w1 == [w EXCEPT !.tasks[h].b = b(t, x)]
    IN  UpdateInstances(w1, Range(t.constraints), x)

\* Task::setLambda: a negative gain is rejected
setLambda(t, lambda) == IF lambda >= 0 THEN [t EXCEPT !.lambda = lambda] ELSE t

\* Task::setReference
setReference(t, ref) == [t EXCEPT !.ref = ref]

RECURSIVE JoinedBackwards(_)
\* a join that takes the ids from the last to the first
JoinedBackwards(ids) ==
    IF Len(ids) = 0 THEN ""
    ELSE IF Len(ids) = 1 THEN ids[1]
    ELSE JoinedBackwards(Tail(ids)) \o "plus" \o ids[1]

RECURSIVE Joined(_)
\* the ids joined by "plus"
Joined(ids) ==
    IF Len(ids) = 0 THEN ""
    ELSE IF Len(ids) = 1 THEN ids[1]
    ELSE ids[1] \o "plus" \o Joined(Tail(ids))

\* the sub-tasks of the Aggregated a, in list order
SubTasks(w, a) == [i \in 1..Len(a.tasks) |-> w.tasks[a.tasks[i]]]

\* a stacking that takes the sub-tasks from the last to the first
StackedReversed(w, a) ==
    LET sub == SubTasks(w, a)
        rev == [i \in 1..Len(sub) |-> sub[Len(sub) + 1 - i]]
    IN  [a EXCEPT !.A = Flatten([i \in 1..Len(rev) |-> rev[i].A]),
                  !.b = Flatten([i \in 1..Len(rev) |->
                                    Scaled(rev[i].lambda, rev[i].b)])]

\* A is the pile of the sub-tasks' A, b the concatenation of their
\* lambda_i * b_i
Stacked(w, a) ==
    LET sub == SubTasks(w, a)
    IN  [a EXCEPT !.A = Flatten([i \in 1..Len(sub) |-> sub[i].A]),
                  !.b = Flatten([i \in 1..Len(sub) |->
                                    Scaled(sub[i].lambda, sub[i].b)])]

\* a collection that keeps an instance as often as it is attached
CollectedAll(w, a) ==
    LET sub == SubTasks(w, a)
    IN  Flatten([i \in 1..Len(sub) |-> sub[i].constraints])

\* the constraints of the sub-tasks, each instance once
Collected(w, a) ==
    LET sub == SubTasks(w, a)
    IN  Unique(Flatten([i \in 1..Len(sub) |-> sub[i].constraints]))

\* a variant that takes for own whatever no sub-task has
OwnByIdentity(a) ==
    Unique(Without(a.constraints, a.aggregatedConstraints))

\* the entries of getConstraints() that were added to the Aggregated itself:
\* those behind the ones that the last generation took from the sub-tasks
Own(a) ==
    LET taken == Len(Without(a.aggregatedConstraints, a.ownConstraints))
    IN  Unique(SubSeq(a.constraints, taken + 1, Len(a.constraints)))

\* a combined list that begins with the own constraints
OwnFirst(own, aggregated) == own \o Without(aggregated, own)

\* a combined list that repeats what is both own and of a sub-task
CombinedTwice(own, aggregated) == aggregated \o own

\* the combined list: the constraints of the sub-tasks that are not own
\* constraints too, then the own constraints
Combined(own, aggregated) == Without(aggregated, own) \o own

\* the own constraints, the aggregated constraints and their union
generateConstraints(w, a) ==
    LET own == Own(a)
        aggregated == Collected(w, a)
    IN  [a EXCEPT !.ownConstraints = own,
                  !.aggregatedConstraints = aggregated,
                  !.constraints = Combined(own, aggregated)]

\* Aggregated(tasks, x_size) of the Tasks of handles hs
Aggregated(w, hs, x_size) ==
    LET a == [id |-> Joined([i \in 1..Len(hs) |-> w.tasks[hs[i]].id]),
              x_size |-> x_size, tasks |-> hs, lambda |-> Unit,
              A |-> <<>>, b |-> <<>>,
              constraints |-> <<>>, ownConstraints |-> <<>>,
              aggregatedConstraints |-> <<>>]
    IN  generateConstraints(w, Stacked(w, a))

RECURSIVE UpdateAll(_, _, _)
\* update(x) of the Tasks of handles hs, in list order
UpdateAll(w, hs, x) ==
    IF hs = <<>> THEN w ELSE UpdateAll(update(w, Head(hs), x), Tail(hs), x)

\* an update that piles what the sub-tasks held before their own update
Aggregated_updateStale(w, k, x) ==
    LET a == generateConstraints(w, Stacked(w, w.aggregates[k]))
        w1 == UpdateAll(w, w.aggregates[k].tasks, x)
        w2 == [w1 EXCEPT !.aggregates[k] = a]
    IN  UpdateInstances(w2, Range(a.constraints), x)

\* Aggregated::update(x) of the Aggregated of handle k
Aggregated_update(w, k, x) ==
    LET w1 == UpdateAll(w, w.aggregates[k].tasks, x)
        a == generateConstraints(w1, Stacked(w1, w1.aggregates[k]))
        w2 == [w1 EXCEPT !.aggregates[k] = a]
    IN  UpdateInstances(w2, Range(a.constraints), x)

\* Task::setLambda(lambda) of the Aggregated of handle k: the gain is its own,
\* the sub-tasks keep theirs
Aggregated_setLambda(w, k, lambda) ==
    [w EXCEPT !.aggregates[k] = setLambda(@, lambda)]

\* getConstraints().push_back(c) on the Aggregated of handle k
push_back(w, k, c) == [w EXCEPT !.aggregates[k].constraints = Append(@, c)]

\* pinv(A) * b for the A of a posture task, the identity
pinv(A_, b_) == b_

----------------------------------------------------------------------------
(* tasks::velocity::Cartesian (src/wb_sot/tasks/Cartesian.cpp).  The robot  *)
(* model is an external library: a pose is modelled by the frame it is     *)
(* taken in and the configuration of the model it is computed at, a        *)
(* Jacobian by its shape and the same two, an error vector by the two      *)
(* poses it is the error between.                                          *)

\* the columns of the floating base, the first of a Jacobian
FloatingBase == 6

\* a pose that was never computed
NoPose == [frame |-> "none", at |-> <<>>]

\* getPosition(distal) for the base link of index 0, getPosition(base,
\* distal) for another, of the model as it stands
Position(c) ==
    [frame |-> IF c.base_link_index = 0 THEN "world" ELSE "base",
     at |-> c.model]

\* getJacobian(distal, A) for the base link of index 0,
\* getRelativeJacobian(distal, base, A, true) for another: 6 rows, a column
\* for each of the 6 coordinates of the floating base and for each joint
Jacobian(c) ==
    [rows |-> 6, cols |-> FloatingBase + c.x_size, tag |-> Position(c)]

\* A.removeCols(0, 6).  On a matrix of fewer than 6 columns the result has a
\* negative number of columns: undefined behaviour, after which the process
\* has faulted or goes on with a matrix of any shape and content
removeCols(M, n) ==
    IF M.cols >= FloatingBase
    THEN {[fault |-> FALSE, M |-> [M EXCEPT !.cols = @ - FloatingBase]]}
    ELSE {[fault |-> TRUE, M |-> M]}
         \cup {[fault |-> FALSE,
                 M |-> [rows |-> M.rows, cols |-> k, tag |-> NoPose]] :
                    k \in 0..n}

\* cartesian_utils::computeCartesianError and the b made of its results:
\* cat(positionError, -orientationErrorGain * orientationError), 3 + 3
\* entries
Error(actual, desired) == [size |-> 3 + 3, actual |-> actual, desired |-> desired]

\* Cartesian::update(x).  The two calls that compute the Jacobian are the
\* arguments of assert: they are made only when assertions are compiled in
\* (with valid links they return true)
Cartesian_update(c, x) ==
    LET c1 == IF c.updateModel THEN [c EXCEPT !.model = x] ELSE c
        computed == IF NDEBUG THEN c1.A ELSE Jacobian(c1)
    IN  { LET c2 == IF c1.base_link_index = 0
                    THEN [c1 EXCEPT !.A = r.M, !.actualPose = Position(c1)]
                    ELSE [c1 EXCEPT !.A = r.M, !.desiredPose = Position(c1)]
          IN  [c2 EXCEPT !.fault = r.fault,
                         !.b = Error(c2.actualPose, c2.desiredPose)]
          : r \in removeCols(computed, c.x_size) }

\* Cartesian(x, robot, x_size, distal_link, base_link, updateModel): the Task
\* is built with nothing in A and b, assert(_base_link_index > 0), the first
\* update, and the desired pose set to the actual one
Cartesian(x, model, base_link_index, updateModel) ==
    LET c == [built |-> TRUE, fault |-> FALSE, x_size |-> Len(x),
              base_link_index |-> base_link_index,
              updateModel |-> updateModel, model |-> model,
              A |-> [rows |-> 0, cols |-> 0, tag |-> NoPose],
              b |-> Error(NoPose, NoPose),
              actualPose |-> NoPose, desiredPose |-> NoPose]
    IN  IF ~NDEBUG /\ ~(base_link_index > 0)
        THEN {[c EXCEPT !.fault = TRUE]}
        ELSE { IF r.fault THEN r ELSE [r EXCEPT !.desiredPose = r.actualPose]
               : r \in Cartesian_update(c, x) }

\* Cartesian::setReference(desiredPose)
Cartesian_setReference(c, desiredPose) == [c EXCEPT !.desiredPose = desiredPose]

\* Constraint::update(x) of the base class does nothing
Constraint_update(c, x) == c

----------------------------------------------------------------------------
(* solvers::QPOases_sot, the hierarchical solver of a Stack.  Only a caller *)
(* of it is among the sources (examples/example_cartesian.cpp); the cascade *)
(* is modelled from its specification.  A level is a Task seen as its A and *)
(* its b (weight W = I, gain 1); the levels of a Stack are counted from 1,  *)
(* so that level 1 here is the level 0, of highest priority, of the Stack.  *)
(* The decision variable ranges over a grid of integers.                    *)

\* the degrees of freedom the levels of a Stack act on
Dofs == 2

\* the largest magnitude of an entry of a decision variable
Reach == 2

\* the decision variables
Grid == [1..Dofs -> -Reach..Reach]

RECURSIVE DotUpTo(_, _, _)
DotUpTo(v, w, n) == IF n = 0 THEN 0 ELSE DotUpTo(v, w, n - 1) + v[n] * w[n]

Dot(v, w) == DotUpTo(v, w, Len(v))

\* the matrix M (a sequence of rows) times the vector v
Times(M, v) == [i \in 1..Len(M) |-> Dot(M[i], v)]

\* the least-squares cost of a level at v: |A v - b|^2
Cost(level, v) ==
    LET residual == Minus(Times(level.A, v), level.b)
    IN  Dot(residual, residual)

\* the priority-preserving constraints of level k: what every level above k
\* has achieved with the solution found for it is kept
Preserved(stack, found, k) ==
    { v \in Grid : \A j \in 1..(k - 1) :
                      Times(stack[j].A, v) = Times(stack[j].A, found[j]) }

\* the least of a set of numbers
Least(S) == CHOOSE n \in S : \A m \in S : n <= m

\* the vectors of S of least cost of the level and, among them, of least
\* norm (the regularization eps * I of the Hessian)
Minimizers(level, S) ==
    LET low == Least({ Cost(level, v) : v \in S })
        best == { v \in S : Cost(level, v) = low }
        short == Least({ Dot(v, v) : v \in best })
    IN  { v \in best : Dot(v, v) = short }

\* a cascade whose levels are not held to what the levels above achieved
LevelSolutionsFree(stack, found, k) == Minimizers(stack[k], Grid)

\* the solutions of the QP of level k: the minimizers of the level's cost
\* under the priority-preserving constraints
LevelSolutions(stack, found, k) ==
    Minimizers(stack[k], Preserved(stack, found, k))

RECURSIVE CascadeGoesOn(_, _, _, _, _)
\* a cascade that goes on to the next level after a level has failed
CascadeGoesOn(stack, fails, k, found, calls) ==
    IF k > Len(stack)
    THEN {[ok |-> \A i \in 1..Len(calls) : calls[i].ok,
           found |-> found, calls |-> calls]}
    ELSE LET called == Append(calls, [level |-> k, ok |-> k \notin fails])
         IN  IF k \in fails
             THEN CascadeGoesOn(stack, fails, k + 1,
                                Append(found, [i \in 1..Dofs |-> 0]), called)
             ELSE UNION { CascadeGoesOn(stack, fails, k + 1, Append(found, v),
                                        called)
                          : v \in LevelSolutions(stack, found, k) }

RECURSIVE Cascade(_, _, _, _, _)
\* the cascade from level k on.  fails holds the levels whose backend
\* reports a failure in this tick, found the solutions of the levels above
\* k, calls the solves of a backend made so far.
Cascade(stack, fails, k, found, calls) ==
    IF k > Len(stack)
    THEN {[ok |-> TRUE, found |-> found, calls |-> calls]}
    ELSE LET called == Append(calls, [level |-> k, ok |-> k \notin fails])
         IN  IF k \in fails
             THEN {[ok |-> FALSE, found |-> found, calls |-> called]}
             ELSE UNION { Cascade(stack, fails, k + 1, Append(found, v),
                                  called)
                          : v \in LevelSolutions(stack, found, k) }

\* QPOases_sot::solve(solution): the cascade over all levels; the vector
\* given is set to the solution of the last level if no level has failed
QPOases_sot_solve(c, fails) ==
    { [c EXCEPT !.solved = TRUE, !.ok = r.ok, !.found = r.found,
                !.calls = r.calls,
                !.x = IF r.ok THEN r.found[Len(r.found)] ELSE c.x]
      : r \in Cascade(c.levels, fails, 1, <<>>, <<>>) }

\* QPOases_sot(stack)
QPOases_sot(stack) == [NoCascade EXCEPT !.levels = stack]

----------------------------------------------------------------------------
(* The state machine *)

\* The constructor: QPOasesProblem(number_of_variables, number_of_constraints)
Init ==
    \E number_of_variables \in {MaxDim}, number_of_constraints \in Rows :
        /\ problem = [nV |-> number_of_variables, nC |-> number_of_constraints,
                      hessianType |-> "HST_UNKNOWN", options |-> "default"]
        /\ bounds = [n |-> 0, x |-> 0]
        /\ constraints = [n |-> 0, x |-> 0]
        /\ nWSR = DefaultNWSR
        /\ solution = [n |-> number_of_variables, x |-> 0]
        /\ dual_solution = [n |-> number_of_variables, x |-> 0]
        /\ opt = "default"
        /\ H = Mat(0, 0, 0) /\ g = <<>> /\ A = Mat(0, 0, 0)
        /\ lA = <<>> /\ uA = <<>> /\ l = <<>> /\ u = <<>>
        /\ NDEBUG \in BOOLEAN
        /\ aborted = FALSE
        /\ op = "idle" /\ ret = TRUE /\ trace = <<>>
        /\ constraint = Constraint(number_of_variables)
        /\ answer = NoAnswer
        /\ supportPolygon = 0
        /\ NoScene

\* The state after a call that ended in state r
Becomes(name, r) ==
    /\ H' = r.H /\ g' = r.g /\ A' = r.A /\ lA' = r.lA /\ uA' = r.uA
    /\ l' = r.l /\ u' = r.u
    /\ solution' = r.solution /\ dual_solution' = r.dual_solution
    /\ bounds' = r.bounds /\ constraints' = r.constraints
    /\ problem' = r.problem /\ opt' = r.opt /\ nWSR' = r.nWSR
    /\ aborted' = r.aborted
    /\ op' = name
    /\ ret' = (r.ret /\ ~r.aborted)
    /\ trace' = r.trace
    /\ UNCHANGED <<NDEBUG, constraint, answer, supportPolygon, scene>>

\* The caller may call a method when the process lives and no call is returning
Idle == ~aborted /\ op = "idle"

\* The caller takes the result of the call that has just returned
Resume ==
    /\ ~aborted
    /\ op # "idle"
    /\ op' = "idle" /\ ret' = TRUE /\ trace' = <<>>
    /\ UNCHANGED <<H, g, A, lA, uA, l, u, solution, dual_solution, bounds,
                   constraints, problem, opt, nWSR, NDEBUG, aborted,
                   constraint, answer, supportPolygon, scene>>

InitProblem(In) ==
    /\ Idle
    /\ \E a \in In : \E r \in initProblem(State, a) :
         Becomes("initProblem", r)

UpdateTask(In) ==
    /\ Idle
    /\ \E a \in TaskArgs(In) :
       \E r \in updateTask(State, a[1], a[2]) :
         Becomes("updateTask", r)

UpdateConstraints(In) ==
    /\ Idle
    /\ \E a \in ConstraintArgs(In) :
       \E r \in updateConstraints(State, a[1], a[2], a[3]) :
         Becomes("updateConstraints", r)

UpdateBounds(In) ==
    /\ Idle
    /\ \E a \in BoundArgs(In) :
       \E r \in updateBounds(State, a[1], a[2]) :
         Becomes("updateBounds", r)

UpdateProblem(In) ==
    /\ Idle
    /\ \E a \in In : \E r \in updateProblem(State, a) :
         Becomes("updateProblem", r)

Solve ==
    /\ Idle
    /\ \E r \in solve(State) :
         Becomes("solve", r)

SetOptions ==
    /\ Idle
    /\ \E options \in OptionSets :
         Becomes("setOptions",
                 [State EXCEPT !.opt = options, !.problem.options = options])

SetHessianType ==
    /\ Idle
    /\ \E ht \in HessianTypes :
         Becomes("setHessianType", [State EXCEPT !.problem.hessianType = ht])

SetnWSR ==
    /\ Idle
    /\ \E n \in NWSRs :
         Becomes("setnWSR", [State EXCEPT !.nWSR = n])

\* The calls with problems of every shape, well-formed or not
Next ==
    \/ InitProblem(InitInputs)
    \/ UpdateTask(ShapeInputs)
    \/ UpdateConstraints(ShapeInputs)
    \/ UpdateBounds(ShapeInputs)
    \/ UpdateProblem(ShapeInputs)
    \/ Solve
    \/ Resume

Spec == Init /\ [][Next]_vars

\* The calls with problems of every content, and the configuration changing
NextValues ==
    \/ InitProblem(ValueInitInputs)
    \/ UpdateTask(ValueInputs)
    \/ UpdateConstraints(ValueInputs)
    \/ UpdateBounds(ValueInputs)
    \/ UpdateProblem(ValueInputs)
    \/ Solve
    \/ SetOptions
    \/ SetHessianType
    \/ Resume

SpecValues == Init /\ [][NextValues]_vars

\* The calls that reach the solver, and the iteration budget changing
NextBudget ==
    \/ InitProblem(ValueInitInputs)
    \/ UpdateConstraints(ValueInitInputs)
    \/ Solve
    \/ SetnWSR
    \/ Resume

SpecBudget == Init /\ [][NextBudget]_vars

\* the variables of the QP back-end
backend == <<H, g, A, lA, uA, l, u, solution, dual_solution, bounds,
             constraints, problem, opt, nWSR, NDEBUG, aborted, op, ret, trace>>

\* A classification predicate of the Constraint is evaluated
Ask ==
    /\ \E p \in Predicates :
         answer' = [predicate |-> p, value |-> Evaluate(p, constraint)]
    /\ UNCHANGED <<constraint, supportPolygon, backend, scene>>

\* The support-polygon constraint is built for the current support polygon
BuildConvexHull ==
    /\ \E hullSize \in 1..MaxHull :
         /\ supportPolygon' = hullSize
         /\ constraint' = ConvexHull(constraint.x_size, hullSize)
    /\ UNCHANGED <<answer, backend, scene>>

\* Constraints of every combination of field sizes, beside a back-end as
\* constructed
InitPredicates ==
    \E c \in AllConstraints :
        /\ constraint = c
        /\ answer = NoAnswer
        /\ supportPolygon = 0
        /\ NoScene
        /\ problem = [nV |-> MaxDim, nC |-> 0,
                      hessianType |-> "HST_UNKNOWN", options |-> "default"]
        /\ bounds = [n |-> 0, x |-> 0]
        /\ constraints = [n |-> 0, x |-> 0]
        /\ nWSR = DefaultNWSR
        /\ solution = [n |-> MaxDim, x |-> 0]
        /\ dual_solution = [n |-> MaxDim, x |-> 0]
        /\ opt = "default"
        /\ H = Mat(0, 0, 0) /\ g = <<>> /\ A = Mat(0, 0, 0)
        /\ lA = <<>> /\ uA = <<>> /\ l = <<>> /\ u = <<>>
        /\ NDEBUG = TRUE
        /\ aborted = FALSE
        /\ op = "idle" /\ ret = TRUE /\ trace = <<>>

NextPredicates == Ask

SpecPredicates == InitPredicates /\ [][NextPredicates]_vars

\* The Constraints that the sources build, and their predicates
NextConstraint ==
    \/ BuildConvexHull
    \/ Ask

SpecConstraint == Init /\ [][NextConstraint]_vars

----------------------------------------------------------------------------
(* The Tasks, their Constraints and the Aggregated tasks at work *)

\* the configuration whose every joint is at v
Conf(v) == [i \in 1..MaxDim |-> v * Unit]

\* the configurations that update(x) is given
Confs == {Conf(1), Conf(2)}

\* the ids of the Tasks
TaskIds == <<"Postural", "cartesian::Waist">>

\* the Constraint instances: a ConvexHull and two CoMVelocity of one content
Instances0 ==
    <<Instance("ConvexHull", Conf(0)), Instance("CoMVelocity", Conf(0)),
      Instance("CoMVelocity", Conf(0))>>

\* the lists of constraints that a Task is given at setup
LeafLists == {<<>>, <<1>>, <<1, 2>>, <<2, 1>>, <<1, 3>>, <<3, 1>>}

\* the lists of Tasks that an Aggregated is built from
TaskLists == {<<1>>, <<2>>, <<1, 2>>, <<2, 1>>, <<1, 1>>}

\* the longest list of constraints that the setup pushes to
MaxList == 3

\* the gains that setLambda is given: 0.1, 0.5, and a negative one
Lambdas == {1, 5, -1}

\* two Tasks at the configurations 1 and 2 with the constraints l1 and l2
Leaves(l1, l2) ==
    [tasks |-> <<[Postural(TaskIds[1], Conf(1)) EXCEPT !.constraints = l1],
                 [Postural(TaskIds[2], Conf(2)) EXCEPT !.constraints = l2]>>,
     instances |-> Instances0,
     aggregates |-> <<>>]

\* the back-end as constructed and a Constraint as constructed, untouched
Quiet ==
    /\ constraint = Constraint(MaxDim)
    /\ answer = NoAnswer
    /\ supportPolygon = 0
    /\ problem = [nV |-> MaxDim, nC |-> 0,
                  hessianType |-> "HST_UNKNOWN", options |-> "default"]
    /\ bounds = [n |-> 0, x |-> 0]
    /\ constraints = [n |-> 0, x |-> 0]
    /\ nWSR = DefaultNWSR
    /\ solution = [n |-> MaxDim, x |-> 0]
    /\ dual_solution = [n |-> MaxDim, x |-> 0]
    /\ opt = "default"
    /\ H = Mat(0, 0, 0) /\ g = <<>> /\ A = Mat(0, 0, 0)
    /\ lA = <<>> /\ uA = <<>> /\ l = <<>> /\ u = <<>>
    /\ NDEBUG = TRUE
    /\ aborted = FALSE
    /\ op = "idle" /\ ret = TRUE /\ trace = <<>>
    /\ NoRobot

\* the Tasks, the instances and the Aggregated tasks become those of w
Apply(w) ==
    /\ tasks' = w.tasks
    /\ instances' = w.instances
    /\ aggregates' = w.aggregates
    /\ UNCHANGED <<constraint, answer, supportPolygon, backend, cartesian,
                   cascade>>

\* getConstraints().push_back(c) on an Aggregated
Push ==
    /\ \E k \in DOMAIN aggregates, c \in DOMAIN instances :
         /\ Len(aggregates[k].constraints) < MaxList
         /\ Apply(push_back(World, k, c))
    /\ UNCHANGED <<q, tick>>

\* update(x) of an Aggregated
Update ==
    /\ \E k \in DOMAIN aggregates, x \in Confs :
         Apply(Aggregated_update(World, k, x))
    /\ UNCHANGED <<q, tick>>

\* setLambda(lambda) of an Aggregated
SetLambda ==
    /\ \E k \in DOMAIN aggregates, lambda \in Lambdas :
         Apply(Aggregated_setLambda(World, k, lambda))
    /\ UNCHANGED <<q, tick>>

\* setLambda(lambda) of a Task
SetTaskLambda ==
    /\ \E h \in DOMAIN tasks, lambda \in Lambdas :
         Apply([World EXCEPT !.tasks[h] = setLambda(@, lambda)])
    /\ UNCHANGED <<q, tick>>

\* One Aggregated of Tasks with constraints
InitUnion ==
    /\ Quiet
    /\ q = <<>> /\ tick = 0
    /\ \E l1 \in LeafLists, l2 \in LeafLists, hs \in TaskLists :
         LET w == Leaves(l1, l2)
         IN  /\ tasks = w.tasks
             /\ instances = w.instances
             /\ aggregates = <<Aggregated(w, hs, MaxDim)>>

NextUnion ==
    \/ Push
    \/ Update

SpecUnion == InitUnion /\ [][NextUnion]_vars

\* One Aggregated of Tasks with gains
InitStack ==
    /\ Quiet
    /\ q = <<>> /\ tick = 0
    /\ \E hs \in TaskLists :
         LET w == Leaves(<<>>, <<>>)
         IN  /\ tasks = w.tasks
             /\ instances = w.instances
             /\ aggregates = <<Aggregated(w, hs, MaxDim)>>

NextStack ==
    \/ Update
    \/ SetLambda
    \/ SetTaskLambda

SpecStack == InitStack /\ [][NextStack]_vars

\* pi, in units of 1e-5
Pi == 314159

\* 1e-4, in units of 1e-5
Tol == 10

\* the ticks of the closed loop
Ticks == 1000

\* the reference posture of the closed loop
q_ref == [i \in 1..MaxDim |-> Pi]

\* A posture task wrapped in an Aggregated, and a posture task by itself, both
\* built at q = 0 and given the reference q_ref
InitLoop ==
    /\ Quiet
    /\ q = Conf(0) /\ tick = 0
    /\ LET w == [tasks |-> <<setReference(Postural(TaskIds[1], Conf(0)), q_ref),
                              setReference(Postural(TaskIds[1], Conf(0)), q_ref)>>,
                  instances |-> <<>>,
                  aggregates |-> <<>>]
       IN  /\ tasks = w.tasks
           /\ instances = w.instances
           /\ aggregates = <<Aggregated(w, <<1>>, MaxDim)>>

\* before the loop: setLambda(lambda) of the Aggregated and of the posture
\* task by itself
GiveLambda ==
    /\ tick = 0
    /\ \E lambda \in Lambdas :
         LET w == Aggregated_setLambda(World, 1, lambda)
         IN  Apply([w EXCEPT !.tasks[2] = setLambda(@, lambda)])
    /\ UNCHANGED <<q, tick>>

\* before the loop: setLambda(lambda) of the wrapped posture task
GiveSubTaskLambda ==
    /\ tick = 0
    /\ \E lambda \in Lambdas :
         Apply([World EXCEPT !.tasks[1] = setLambda(@, lambda)])
    /\ UNCHANGED <<q, tick>>

\* one tick of the loop: update(q) of both, dq = pinv(A) * b of one of them,
\* q += dq
Tick ==
    /\ tick < Ticks
    /\ \E wrapped \in BOOLEAN :
         LET w == Aggregated_update(update(World, 2, q), 1, q)
             dq == IF wrapped
                   THEN pinv(w.aggregates[1].A, w.aggregates[1].b)
                   ELSE pinv(w.tasks[2].A, w.tasks[2].b)
         IN  /\ Apply(w)
             /\ q' = Plus(q, dq)
    /\ tick' = tick + 1

NextLoop ==
    \/ GiveLambda
    \/ GiveSubTaskLambda
    \/ Tick

SpecLoop == InitLoop /\ [][NextLoop]_vars

\* the lists of constraints of the Tasks of two Aggregated tasks
SharedLeafLists == {<<>>, <<1>>}

\* Two Aggregated tasks, of one Task each, that may hold the same instances
InitShared ==
    /\ Quiet
    /\ q = <<>> /\ tick = 0
    /\ \E l1 \in SharedLeafLists, l2 \in SharedLeafLists :
         LET w == Leaves(l1, l2)
         IN  /\ tasks = w.tasks
             /\ instances = w.instances
             /\ aggregates = <<Aggregated(w, <<1>>, MaxDim),
                               Aggregated(w, <<2>>, MaxDim)>>

\* push_back of a Constraint on the list of one of two Aggregated tasks
PushShared ==
    /\ \E k \in DOMAIN aggregates, c \in DOMAIN instances :
         /\ Len(aggregates[k].constraints) < MaxList - 1
         /\ Apply(push_back(World, k, c))
    /\ UNCHANGED <<q, tick>>

NextShared ==
    \/ PushShared
    \/ Update

SpecShared == InitShared /\ [][NextShared]_vars

\* the base links of a Cartesian task: the link of index 0 and another
BaseLinks == {0, 1}

\* the configurations of a robot
AllConfs == {Conf(0), Conf(1), Conf(2)}

\* the poses that setReference is given
References == {[frame |-> "reference", at |-> x] : x \in Confs}

\* the Cartesian task, and the process if the call has terminated it, are
\* as the call that ended in r leaves them
CartesianBecomes(r) ==
    /\ cartesian' = [r EXCEPT !.fault = FALSE]
    /\ aborted' = r.fault
    /\ UNCHANGED <<H, g, A, lA, uA, l, u, solution, dual_solution, bounds,
                   constraints, problem, opt, nWSR, NDEBUG, op, ret, trace,
                   constraint, answer, supportPolygon, tasks, instances,
                   aggregates, q, tick, cascade>>

\* a Cartesian task is constructed
Construct ==
    /\ ~aborted /\ ~cartesian.built
    /\ \E x \in AllConfs, base \in BaseLinks, updateModel \in BOOLEAN :
         \E r \in Cartesian(x, x, base, updateModel) :
            CartesianBecomes(r)

\* cartesian->update(x)
UpdateCartesian ==
    /\ ~aborted /\ cartesian.built
    /\ \E x \in Confs : \E r \in Cartesian_update(cartesian, x) :
         CartesianBecomes(r)

\* cartesian->setReference(poseReference)
SetReference ==
    /\ ~aborted /\ cartesian.built
    /\ \E ref \in References :
         CartesianBecomes(Cartesian_setReference(cartesian, ref))

\* the robot moves, the model following it
Move ==
    /\ ~aborted /\ cartesian.built
    /\ \E x \in AllConfs : CartesianBecomes([cartesian EXCEPT !.model = x])

\* the base Constraint is updated
UpdateConstraint ==
    /\ \E x \in Confs : constraint' = Constraint_update(constraint, x)
    /\ answer' = NoAnswer
    /\ UNCHANGED <<supportPolygon, backend, scene>>

NextCartesian ==
    \/ Construct
    \/ UpdateCartesian
    \/ SetReference
    \/ Move
    \/ UpdateConstraint
    \/ Ask

SpecCartesian == Init /\ [][NextCartesian]_vars

\* the most levels of a Stack
MaxLevels == 2

\* the matrices A of the levels of a Stack: of full rank and not
Matrices ==
    { <<<<1, 0>>, <<0, 1>>>>, <<<<1, 0>>, <<1, 0>>>>, <<<<1, 1>>, <<0, 0>>>> }

\* the vectors b of the levels of a Stack
Targets == { <<1, 0>>, <<0, 1>> }

\* stack.push_back(task), before the solver is made of the stack
PushLevel ==
    /\ ~aborted /\ ~cascade.solved
    /\ Len(cascade.levels) < MaxLevels
    /\ \E M \in Matrices, target \in Targets :
         cascade' = QPOases_sot(Append(cascade.levels,
                                       [A |-> M, b |-> target]))
    /\ UNCHANGED <<H, g, A, lA, uA, l, u, solution, dual_solution, bounds,
                   constraints, problem, opt, nWSR, NDEBUG, aborted, op, ret,
                   trace, constraint, answer, supportPolygon, tasks,
                   instances, aggregates, q, tick, cartesian>>

\* solver.solve(dq): one tick, in which the backends of the levels of fails
\* report a failure
SolveStack ==
    /\ ~aborted /\ Len(cascade.levels) > 0
    /\ \E fails \in SUBSET (1..Len(cascade.levels)) :
         \E r \in QPOases_sot_solve(cascade, fails) : cascade' = r
    /\ UNCHANGED <<H, g, A, lA, uA, l, u, solution, dual_solution, bounds,
                   constraints, problem, opt, nWSR, NDEBUG, aborted, op, ret,
                   trace, constraint, answer, supportPolygon, tasks,
                   instances, aggregates, q, tick, cartesian>>

NextCascade ==
    \/ PushLevel
    \/ SolveStack

\* a backend as constructed, in a build with assertions, and no Stack yet
InitCascade == Init /\ ~NDEBUG /\ problem.nC = 0

SpecCascade == InitCascade /\ [][NextCascade]_vars

----------------------------------------------------------------------------
(* Properties.  A state with op # "idle" is the state in which the call op *)
(* has just ended: ret is what it returned and trace what it did.          *)

IsSolverCall(e) == e.ev \in SolverEvents

\* the calls of the solver in a trace, in order
SolverCalls(tr) == SelectSeq(tr, IsSolverCall)

Has(tr, e, ok) == \E i \in 1..Len(tr) : tr[i] = [ev |-> e, ok |-> ok]

\* the call op has returned to its caller (the process was not terminated)
Returned(name) == op = name /\ ~aborted

AttemptOrder == <<"hotstart", "warmstart", "init">>

InitFailureKeepsState ==
    [][(op' = "initProblem" /\ ~aborted' /\ ~ret')
          => UNCHANGED <<H, g, A, lA, uA, l, u, solution>>]_vars

\* C4: an initProblem whose l and u differ in size, or whose lA has not as
\* many entries as A has rows, or as uA has, returns false, and the solver
\* is not called.  (initProblem stores its arguments, so the stored sizes
\* after the call are those of the arguments.)
InitInvalidReturnsFalse ==
    (/\ op = "initProblem"
     /\ (Len(l) # Len(u) \/ Len(lA) # A.rows \/ Len(lA) # Len(uA)))
        => /\ ~aborted /\ ~ret
           /\ SolverCalls(trace) = <<>>

\* what a call leaves alone when it touches neither the problem object nor
\* the results of the last solve
KeepsSolver(r) ==
    /\ r.problem = problem /\ r.opt = opt /\ r.nWSR = nWSR
    /\ r.solution = solution /\ r.dual_solution = dual_solution
    /\ r.bounds = bounds /\ r.constraints = constraints
    /\ ~Has(r.trace, "new", TRUE) /\ SolverCalls(r.trace) = <<>>

\* the call returned true, and left alone the problem object, the solver
\* and the results of the last solve
InPlace(r) == ~r.aborted /\ r.ret /\ KeepsSolver(r)

\* the call returned false and changed nothing
Rejected(r) == ~r.aborted /\ ~r.ret /\ KeepsSolver(r) /\ Stored(r) = Stored(State)

\* C5, as stated: an updateTask whose H has as many rows as the stored H, and
\* an updateConstraints whose A has as many rows as the stored A, replace the
\* stored matrices in place and return true, without re-creating the problem,
\* calling the solver or changing the solution, dual or active sets.
SameRowsAlwaysInPlace ==
    Idle =>
        /\ \A a \in TaskArgs(AllInputs) :
              a[1].rows = H.rows =>
                \A r \in updateTask(State, a[1], a[2]) :
                    InPlace(r) /\ r.H = a[1] /\ r.g = a[2]
        /\ \A a \in ConstraintArgs(AllInputs) :
              a[1].rows = A.rows =>
                \A r \in updateConstraints(State, a[1], a[2], a[3]) :
                    InPlace(r) /\ r.A = a[1] /\ r.lA = a[2] /\ r.uA = a[3]

\* the size checks of updateTask and of updateConstraints
TaskSizesPass(Hn) == Len(g) = H.rows /\ Hn.cols = H.cols

ConstraintSizesPass(An, lAn, uAn) ==
    An.cols = H.cols /\ Len(lAn) = An.rows /\ Len(lAn) = Len(uAn)

\* C5, amended: the same of the calls that pass the size checks (the stored
\* g has as many entries as the stored H has rows and H has the stored
\* number of columns; A has as many columns as the stored H, and lA and uA
\* as many entries as A has rows); the call changes nothing else.
SameRowsUpdateInPlace ==
    Idle =>
        /\ \A a \in TaskArgs(AllInputs) :
              (TaskSizesPass(a[1]) /\ a[1].rows = H.rows) =>
                \A r \in updateTask(State, a[1], a[2]) :
                    /\ InPlace(r)
                    /\ Stored(r) = [Stored(State) EXCEPT !.H = a[1], !.g = a[2]]
        /\ \A a \in ConstraintArgs(AllInputs) :
              (ConstraintSizesPass(a[1], a[2], a[3]) /\ a[1].rows = A.rows) =>
                \A r \in updateConstraints(State, a[1], a[2], a[3]) :
                    /\ InPlace(r)
                    /\ Stored(r) = [Stored(State) EXCEPT
                                       !.A = a[1], !.lA = a[2], !.uA = a[3]]

\* an updateTask that has replaced the H and g of an initialised problem in
\* place
TaskReplacedInPlace ==
    /\ Returned("updateTask") /\ ret /\ trace = <<>>
    /\ H.rows > 0 /\ solution.x > 0

RejectedUpdateKeepsState ==
    Idle =>
        /\ \A a \in TaskArgs(AllInputs) :
              (Len(g) = H.rows /\ a[1].cols # H.cols) =>
                \A r \in updateTask(State, a[1], a[2]) : Rejected(r)
        /\ \A a \in ConstraintArgs(AllInputs) :
              ~ConstraintSizesPass(a[1], a[2], a[3]) =>
                \A r \in updateConstraints(State, a[1], a[2], a[3]) : Rejected(r)
        /\ \A a \in BoundArgs(AllInputs) :
              (Len(a[1]) # Len(l) \/ Len(a[2]) # Len(u)) =>
                \A r \in updateBounds(State, a[1], a[2]) : Rejected(r)

\* an updateConstraints of an initialised problem rejected for the size of
\* its lA
ConstraintsRejected ==
    /\ Returned("updateConstraints") /\ ~ret
    /\ Has(trace, "reject_lA_A", FALSE)
    /\ H.rows > 0 /\ solution.x > 0

\* what updateTask, updateConstraints and updateBounds record when they
\* reject their arguments for a shape
RejectEvents ==
    {"reject_H_cols", "reject_A_cols", "reject_lA_A", "reject_lA_uA",
     "reject_l", "reject_u", "reject_l_u"}

\* C8: an updateProblem that returns false because one of its parts was
\* rejected for its shape leaves the stored H, g, A, lA, uA, l and u as they
\* were before the call.
UpdateProblemRejectionKeepsState ==
    [][(/\ op' = "updateProblem" /\ ~aborted' /\ ~ret'
        /\ \E e \in RejectEvents : Has(trace', e, FALSE))
          => UNCHANGED <<H, g, A, lA, uA, l, u>>]_vars

UpdateSteps == <<"updateBounds", "updateConstraints", "updateTask">>

IsUpdateStep(e) == \E i \in 1..Len(UpdateSteps) : e.ev = UpdateSteps[i]

\* C9: updateProblem runs updateBounds, then updateConstraints, then
\* updateTask; an update runs only if every earlier one returned true, nothing
\* runs after one that returned false, and updateProblem returns true iff the
\* three of them returned true.
UpdateProblemInOrder ==
    op = "updateProblem" =>
        LET m == SelectSeq(trace, IsUpdateStep)
        IN  /\ Len(m) <= Len(UpdateSteps)
            /\ \A i \in 1..Len(m) :
                  /\ m[i].ev = UpdateSteps[i]
                  /\ (i < Len(m) => m[i].ok)
            /\ ~aborted =>
                  /\ Len(m) >= 1
                  /\ trace[Len(trace)] = m[Len(m)]
                  /\ (Len(m) < Len(UpdateSteps) => ~m[Len(m)].ok)
                  /\ ret = (Len(m) = Len(UpdateSteps) /\ m[Len(m)].ok)

\* an updateProblem stopped by its updateConstraints, after an updateBounds
\* that returned true
UpdateProblemStopped ==
    /\ Returned("updateProblem") /\ ~ret
    /\ Has(trace, "updateBounds", TRUE)
    /\ Has(trace, "updateConstraints", FALSE)

\* C10: updateBounds returns true iff its l and its u have the sizes of the
\* stored l and u; when it does, it replaces l and u and nothing else; it
\* never re-creates the problem nor calls the solver.
UpdateBoundsIffSizesMatch ==
    Idle =>
        \A a \in BoundArgs(AllInputs) :
            \A r \in updateBounds(State, a[1], a[2]) :
                /\ ~r.aborted /\ KeepsSolver(r)
                /\ r.ret = (Len(a[1]) = Len(l) /\ Len(a[2]) = Len(u))
                /\ r.ret => Stored(r) = [Stored(State) EXCEPT
                                            !.l = a[1], !.u = a[2]]

IsCall(e) == e.ev = "call"

\* what the solver was given in a trace, call by call
Calls(tr) == SelectSeq(tr, IsCall)

InRange(v) == \A i \in 1..Len(v) : -INFTY <= v[i] /\ v[i] <= INFTY

\* every call of the solver in the trace was handed limits within the
\* sentinels
HandedInRange(tr) ==
    \A i \in 1..Len(tr) :
        IsCall(tr[i]) =>
            /\ InRange(tr[i].data.l) /\ InRange(tr[i].data.u)
            /\ InRange(tr[i].data.lA) /\ InRange(tr[i].data.uA)

\* C11: at every call of the solver, from solve(), from initProblem() or from
\* the re-creation in updateTask and updateConstraints, every entry of l, u,
\* lA and uA handed to the solver lies in [-INFTY, INFTY], whatever was
\* stored or is passed.
LimitsHandedInRange ==
    Idle =>
        /\ \A r \in solve(State) : HandedInRange(r.trace)
        /\ \A a \in LimitInputs :
              \A r \in initProblem(State, a) : HandedInRange(r.trace)
        /\ \A a \in TaskArgs(LimitInputs) :
              \A r \in updateTask(State, a[1], a[2]) : HandedInRange(r.trace)
        /\ \A a \in ConstraintArgs(LimitInputs) :
              \A r \in updateConstraints(State, a[1], a[2], a[3]) :
                  HandedInRange(r.trace)

\* a limit beyond a sentinel replaced by the sentinel
Saturated(v) ==
    [i \in 1..Len(v) |-> IF v[i] > INFTY THEN INFTY
                         ELSE IF v[i] < -INFTY THEN -INFTY ELSE v[i]]

SaturatedLimits(a) ==
    [a EXCEPT !.l = Saturated(@), !.u = Saturated(@),
              !.lA = Saturated(@), !.uA = Saturated(@)]

\* what a caller and the solver see of the ends of a call: what the solver
\* was handed, call by call, and what the call returned
Observed(ends) ==
    { [calls |-> Calls(r.trace), ret |-> r.ret, aborted |-> r.aborted] :
        r \in ends }

\* C12: a backend given limits beyond a sentinel and a backend given the
\* sentinel in their place hand the same data to the solver at every call,
\* and return the same from initProblem and from solve.
SentinelTreatedAlike ==
    Idle =>
        /\ Observed(solve(State)) = Observed(solve(SaturatedLimits(State)))
        /\ \A a \in LimitInputs :
              Observed(initProblem(State, a))
                  = Observed(initProblem(SaturatedLimits(State),
                                         SaturatedLimits(a)))

\* the stored problem is one of n variables, n > 0
Initialised == H.rows > 0 /\ H.rows = H.cols /\ Len(g) = H.rows

\* C13: an initialised backend accepts an updateTask whose H is n' x n' for
\* another number of variables n', and the solve() that follows returns true
\* with a solution of size n'.
TaskResizeAccepted ==
    (Idle /\ Initialised) =>
        \A a \in TaskArgs(AllInputs) :
            (a[1].rows = a[1].cols /\ Len(a[2]) = a[1].rows
                /\ a[1].rows # H.rows) =>
                \A r \in updateTask(State, a[1], a[2]) :
                    /\ ~r.aborted /\ r.ret
                    /\ \A r2 \in solve([r EXCEPT !.trace = <<>>]) :
                          ~r2.aborted /\ r2.ret /\ r2.solution.n = a[1].cols

\* C14: in every state that a sequence of calls reaches, l and u have one
\* size, and lA and uA have as many entries as A has rows.
StoredSizesAgree ==
    ~aborted =>
        /\ Len(l) = Len(u)
        /\ Len(lA) = Len(uA) /\ Len(lA) = A.rows

\* C15: no failure of an operation terminates the process, whatever the
\* build: the failure is returned to the caller.
NoFailureTerminates == ~aborted

\* C16: solve() calls the solver at most three times, initProblem() at most
\* once, and every call of the solver is given a budget of iterations no
\* larger than the configured nWSR.
SolverCallsBounded ==
    LET c == Calls(trace)
    IN  /\ op = "solve" => Len(c) <= 3
        /\ op = "initProblem" => Len(c) <= 1
        /\ \A i \in 1..Len(c) : c[i].nWSR <= nWSR

\* a solve() under a budget set by setnWSR that has called the solver three
\* times
SolveThriceUnderBudget ==
    /\ Returned("solve") /\ nWSR # DefaultNWSR
    /\ Len(Calls(trace)) = 3


----------------------------------------------------------------------------
(* Classification of a Constraint *)

Asked(p) == answer.predicate = p

OneEmpty(c) == (c.bLowerBound = 0) # (c.bUpperBound = 0)

\* C18: a Constraint is unilateral iff it is an inequality and exactly one of
\* bLowerBound and bUpperBound is empty, and bilateral iff it is an
\* inequality and not unilateral; an inequality with both empty is not
\* unilateral.
UnilateralIffOneBoundEmpty ==
    /\ Asked("isUnilateralConstraint") =>
           answer.value = (isInequalityConstraint(constraint)
                           /\ OneEmpty(constraint))
    /\ Asked("isBilateralConstraint") =>
           answer.value = (isInequalityConstraint(constraint)
                           /\ ~isUnilateralConstraint(constraint))

\* what the sizes of the fields say of each predicate
BySizes(p, c) ==
    CASE p = "isEqualityConstraint"   -> c.Aeq > 0
      [] p = "isInequalityConstraint" -> c.Aineq > 0
      [] p = "isConstraint"           -> c.Aeq > 0 \/ c.Aineq > 0
      [] p = "hasBounds"              -> c.lowerBound > 0 \/ c.upperBound > 0
      [] p = "isBound"                -> /\ c.lowerBound > 0 \/ c.upperBound > 0
                                         /\ ~(c.Aeq > 0 \/ c.Aineq > 0)

SizePredicates ==
    {"isEqualityConstraint", "isInequalityConstraint", "isConstraint",
     "hasBounds", "isBound"}

\* C19: the predicates are functions of the current sizes of the fields
\* only: isEqualityConstraint is Aeq.rows > 0, isInequalityConstraint is
\* Aineq.rows > 0, isConstraint is either of them, hasBounds is lowerBound
\* or upperBound non-empty, isBound is hasBounds and not isConstraint;
\* isBound and isConstraint are never both true, and evaluating a predicate
\* changes no field.
PredicatesReadSizes ==
    [][answer' # answer =>
         /\ constraint' = constraint
         /\ answer'.predicate \in SizePredicates =>
                answer'.value = BySizes(answer'.predicate, constraint)
         /\ ~(Evaluate("isBound", constraint')
               /\ Evaluate("isConstraint", constraint'))]_vars

\* a Constraint with box bounds and rows was asked whether it is a bound,
\* and is not one
BoundsWithRowsAsked ==
    /\ Asked("isBound") /\ ~answer.value
    /\ constraint.lowerBound > 0 /\ constraint.Aineq > 0

ConvexHullPureUnilateral ==
    supportPolygon > 0 =>
        /\ constraint.lowerBound = 0 /\ constraint.upperBound = 0
        /\ constraint.Aeq = 0 /\ constraint.beq = 0
        /\ constraint.bLowerBound = 0
        /\ constraint.Aineq_cols = 2
        /\ constraint.Aineq = supportPolygon
        /\ constraint.bUpperBound = constraint.Aineq
        /\ isUnilateralConstraint(constraint)
        /\ ~isBilateralConstraint(constraint)
        /\ ~isEqualityConstraint(constraint)
        /\ ~hasBounds(constraint)

\* the constraint was rebuilt for a support polygon of another number of
\* vertices and asked whether it is a constraint
HullRebuiltAsked ==
    /\ supportPolygon = MaxHull /\ constraint.Aineq = MaxHull
    /\ Asked("isConstraint") /\ answer.value

----------------------------------------------------------------------------
(* The constraints of an Aggregated *)

\* the Aggregated of handle k after its update(x)
Updated(w, k, x) == Aggregated_update(w, k, x).aggregates[k]

Count(s, e) == Cardinality({ i \in 1..Len(s) : s[i] = e })

NoRepeat(s) == \A i, j \in 1..Len(s) : s[i] = s[j] => i = j

\* the constraints attached to the sub-tasks of the Aggregated a
Attached(a) == UNION { Range(tasks[h].constraints) : h \in Range(a.tasks) }

\* two lists of two distinct instances that have one instance in common
ShareOne(c1, c2) ==
    /\ Len(c1) = 2 /\ Len(c2) = 2 /\ NoRepeat(c1) /\ NoRepeat(c2)
    /\ Cardinality(Range(c1) \cap Range(c2)) = 1

\* C23: when T1 and T2 share one Constraint instance and each has one more
\* of its own, the constraints of Aggregated(T1, T2) are three, each instance
\* once, in either order of the sub-tasks and of the constraints in them;
\* two instances of equal contents are two entries.
SharedConstraintOnce ==
    ShareOne(tasks[1].constraints, tasks[2].constraints) =>
        /\ \A hs \in {<<1, 2>>, <<2, 1>>} :
              LET cs == Aggregated(World, hs, MaxDim).constraints
              IN  /\ Len(cs) = 3
                  /\ \A c \in Range(tasks[1].constraints)
                                \cup Range(tasks[2].constraints) :
                         Count(cs, c) = 1
        /\ \A k \in DOMAIN aggregates :
              (Range(aggregates[k].tasks) = {1, 2}
                  /\ Own(aggregates[k]) = <<>>) =>
                  /\ Len(aggregates[k].constraints) = 3
                  /\ NoRepeat(aggregates[k].constraints)

\* an Aggregated was built from two Tasks that share the ConvexHull and have
\* each a CoMVelocity of the same content, and holds the three
SharedAndTwinsKept ==
    /\ tasks[1].constraints = <<1, 2>> /\ tasks[2].constraints = <<3, 1>>
    /\ instances[2] = instances[3]
    /\ aggregates[1].tasks = <<2, 1>>
    /\ aggregates[1].constraints = <<3, 1, 2>>

\* C24: as long as nothing is pushed, every update(x) of an Aggregated, with
\* the same x or another, leaves getConstraints() of one size, the number of
\* distinct instances among its own constraints and those of its sub-tasks,
\* and appends no constraint that the list has.
UpdateKeepsConstraints ==
    \A k \in DOMAIN aggregates, x \in Confs :
        LET a == aggregates[k]
            w1 == Aggregated_update(World, k, x)
            a1 == w1.aggregates[k]
        IN  /\ Len(a1.constraints)
                 = Cardinality(Range(Own(a)) \cup Attached(a))
            /\ NoRepeat(a1.constraints)
            /\ \A x2 \in Confs :
                  Updated(w1, k, x2).constraints = a1.constraints

\* an Aggregated that was given a constraint of one of its sub-tasks as its
\* own has been updated, and lists it once
OwnOfSubTaskListedOnce ==
    \E k \in DOMAIN aggregates :
        /\ Range(aggregates[k].ownConstraints)
              \cap Range(aggregates[k].aggregatedConstraints) # {}
        /\ Len(aggregates[k].aggregatedConstraints) = 2
        /\ aggregates[k].constraints
              = Combined(aggregates[k].ownConstraints,
                         aggregates[k].aggregatedConstraints)
        /\ NoRepeat(aggregates[k].constraints)

\* C25: after update(), getOwnConstraints() holds exactly the constraints
\* that were added to the Aggregated itself, those pushed onto
\* getConstraints() included, getAggregatedConstraints() exactly those of
\* its sub-tasks, and getConstraints() their union, of size(own) +
\* size(aggregated) entries when no instance is in both.
OwnAndAggregatedPartition ==
    \A k \in DOMAIN aggregates, x \in Confs :
        LET a == aggregates[k]
            a1 == Updated(World, k, x)
            own == Range(a1.ownConstraints)
            aggregated == Range(a1.aggregatedConstraints)
        IN  /\ aggregated = Attached(a)
            /\ NoRepeat(a1.ownConstraints)
            /\ NoRepeat(a1.aggregatedConstraints)
            /\ Range(a1.constraints) = own \cup aggregated
            /\ own \cap aggregated = {} =>
                  Len(a1.ownConstraints) + Len(a1.aggregatedConstraints)
                      = Len(a1.constraints)
            /\ Updated(Aggregated_update(World, k, x), k, x).ownConstraints
                  = a1.ownConstraints
            /\ \A c \in DOMAIN instances :
                  Range(Updated(push_back(World, k, c), k, x).ownConstraints)
                      = own \cup {c}
            /\ \A hs \in TaskLists :
                  Aggregated(World, hs, MaxDim).ownConstraints = <<>>

\* the Aggregated of the Task that has the ConvexHull was given the
\* CoMVelocity and updated: one own constraint, one aggregated, two in all
OneOwnOneAggregated ==
    /\ aggregates[1].ownConstraints = <<2>>
    /\ aggregates[1].aggregatedConstraints = <<1>>
    /\ Len(aggregates[1].constraints) = 2

\* C26: after update(), getConstraints() lists the own constraints first, in
\* insertion order, then those of the sub-tasks in sub-task order, without
\* duplicates; with one own constraint and one of a sub-task, front() is the
\* own constraint and back() the sub-task's.
OwnConstraintsFirst ==
    \A k \in DOMAIN aggregates, x \in Confs :
        LET a1 == Updated(World, k, x)
            own == a1.ownConstraints
            aggregated == a1.aggregatedConstraints
        IN  /\ a1.constraints
                  = own \o SelectSeq(aggregated, LAMBDA c : c \notin Range(own))
            /\ (Len(own) = 1 /\ Len(aggregated) = 1 /\ own # aggregated) =>
                  /\ Head(a1.constraints) = own[1]
                  /\ a1.constraints[Len(a1.constraints)] = aggregated[1]

\* C26 as the test has it: after update(), getConstraints() lists the
\* constraints of the sub-tasks first, in sub-task order and without those
\* that are own constraints too, then the own constraints in insertion
\* order; with one own constraint and one of a sub-task, front() is the
\* sub-task's and back() the own constraint.
SubTaskConstraintsFirst ==
    \A k \in DOMAIN aggregates, x \in Confs :
        LET a == aggregates[k]
            a1 == Updated(World, k, x)
            own == a1.ownConstraints
            aggregated == a1.aggregatedConstraints
            n == Len(a1.constraints)
            attached == Flatten([i \in 1..Len(a.tasks) |->
                                    tasks[a.tasks[i]].constraints])
        IN  /\ SubSeq(a1.constraints, n - Len(own) + 1, n) = own
            /\ SubSeq(a1.constraints, 1, n - Len(own))
                  = Unique(SelectSeq(attached, LAMBDA c : c \notin Range(own)))
            /\ \A c \in DOMAIN instances :
                  LET a2 == Updated(push_back(World, k, c), k, x)
                  IN  c \notin Range(own) =>
                         a2.ownConstraints = Append(own, c)
            /\ (Len(own) = 1 /\ Len(aggregated) = 1 /\ own # aggregated) =>
                  /\ Head(a1.constraints) = aggregated[1]
                  /\ a1.constraints[n] = own[1]

\* the Aggregated of the Task that has the ConvexHull was given the
\* CoMVelocity and updated: the ConvexHull is at the front, the CoMVelocity
\* at the back
SubTaskConstraintAtFront ==
    /\ aggregates[1].tasks = <<2>> /\ tasks[2].constraints = <<1>>
    /\ aggregates[1].ownConstraints = <<2>>
    /\ aggregates[1].constraints = <<1, 2>>
    /\ instances[1].x = Conf(2)

\* the state after update(x) of the first Aggregated, then of the second
BothUpdated(w, x) == Aggregated_update(Aggregated_update(w, 1, x), 2, x)

\* the lists of the two Aggregated tasks have equal constraints (Aineq,
\* bLowerBound, bUpperBound) at each position
SamePositions(w) ==
    LET c1 == w.aggregates[1].constraints
        c2 == w.aggregates[2].constraints
    IN  /\ Len(c1) = Len(c2)
        /\ \A i \in 1..Len(c1) : w.instances[c1[i]] = w.instances[c2[i]]

\* one Aggregated holds the instances c and d as its own, the other has c
\* from its sub-task and d as its own
HoldSame(j, k, c, d) ==
    /\ c # d
    /\ Attached(aggregates[j]) = {}
    /\ Range(Own(aggregates[j])) = {c, d} /\ Len(Own(aggregates[j])) = 2
    /\ Attached(aggregates[k]) = {c}
    /\ Own(aggregates[k]) = <<d>>

\* C27: when one Aggregated holds two Constraint instances as its own and
\* another has one of them from a sub-task and the other as its own, then
\* after an update of both with one x, and after another with a new x, the
\* constraints at each position of the two lists have the same Aineq,
\* bLowerBound and bUpperBound.
SharedObservedAlike ==
    \A j, k \in DOMAIN aggregates, c, d \in DOMAIN instances :
        HoldSame(j, k, c, d) =>
            \A x \in Confs :
                /\ SamePositions(BothUpdated(World, x))
                /\ \A x2 \in Confs :
                      SamePositions(BothUpdated(BothUpdated(World, x), x2))

\* C27 for the lists in one order: when moreover the first Aggregated was
\* given the two instances in the order in which the second lists them, the
\* sub-task's first, the constraints at each position of the two lists have
\* the same Aineq, bLowerBound and bUpperBound after each update of both.
SharedObservedAlikeInOrder ==
    \A j, k \in DOMAIN aggregates, c, d \in DOMAIN instances :
        (HoldSame(j, k, c, d) /\ Own(aggregates[j]) = <<c, d>>) =>
            \A x \in Confs :
                /\ SamePositions(BothUpdated(World, x))
                /\ \A x2 \in Confs :
                      SamePositions(BothUpdated(BothUpdated(World, x), x2))

\* both Aggregated tasks hold the ConvexHull and a CoMVelocity, the first as
\* its own and the second with the ConvexHull from its sub-task, and both
\* were updated in the second configuration
BothHoldUpdated ==
    /\ aggregates[1].ownConstraints = <<1, 2>>
    /\ aggregates[1].aggregatedConstraints = <<>>
    /\ aggregates[2].aggregatedConstraints = <<1>>
    /\ aggregates[2].ownConstraints = <<2>>
    /\ aggregates[1].constraints = aggregates[2].constraints
    /\ instances[1].x = Conf(2) /\ instances[2].x = Conf(2)
    /\ tasks[1].b = b(tasks[1], Conf(2)) /\ tasks[2].b = b(tasks[2], Conf(2))

RECURSIVE RowsBefore(_, _)
\* the number of rows of the sub-tasks before the i-th
RowsBefore(sub, i) ==
    IF i <= 1 THEN 0 ELSE RowsBefore(sub, i - 1) + Len(sub[i - 1].A)

\* the rows of A and b of the Aggregated a are those of its sub-tasks, in list
\* order, each b_i times its lambda_i
Piled(w, a) ==
    LET sub == SubTasks(w, a)
        rows == RowsBefore(sub, Len(sub) + 1)
    IN  /\ Len(a.A) = rows
        /\ Len(a.b) = rows
        /\ \A i \in 1..Len(sub) :
              /\ Len(sub[i].b) = Len(sub[i].A)
              /\ \A r \in 1..Len(sub[i].A) :
                    /\ a.A[RowsBefore(sub, i) + r] = sub[i].A[r]
                    /\ a.b[RowsBefore(sub, i) + r] * Unit
                          = sub[i].lambda * sub[i].b[r]

\* C22: after construction from any list of sub-tasks, and after every
\* update(x), the A of an Aggregated is the pile of its sub-tasks' A in list
\* order and its b the concatenation of their lambda_i * b_i in that order,
\* so that A has as many rows as b has entries, the sum of the sub-tasks'
\* rows.
StackedInListOrder ==
    /\ \A hs \in TaskLists : Piled(World, Aggregated(World, hs, MaxDim))
    /\ \A k \in DOMAIN aggregates, x \in Confs :
          LET w == Aggregated_update(World, k, x)
          IN  Piled(w, w.aggregates[k])

\* an Aggregated of the two Tasks in list order was updated in the first
\* configuration after the second Task was given the gain 0.5
TwoStackedWithGain ==
    /\ aggregates[1].tasks = <<1, 2>>
    /\ tasks[2].lambda = 5
    /\ tasks[1].b = Conf(0) /\ tasks[2].b = Conf(1)
    /\ aggregates[1].b = Conf(0) \o [i \in 1..MaxDim |-> 5]
    /\ Len(aggregates[1].A) = MaxDim + MaxDim

\* C29: the id of an Aggregated is the ids of its sub-tasks in list order
\* joined by "plus"; the two orders of two sub-tasks give two ids, and a list
\* of the same sub-task twice gives id + "plus" + id.
IdJoinedByPlus ==
    /\ \A k \in DOMAIN aggregates :
          LET hs == aggregates[k].tasks
          IN  /\ Len(hs) = 1 => aggregates[k].id = tasks[hs[1]].id
              /\ Len(hs) = 2 =>
                    aggregates[k].id
                      = tasks[hs[1]].id \o "plus" \o tasks[hs[2]].id
    /\ \A h1, h \in DOMAIN tasks :
          /\ Aggregated(World, <<h, h>>, MaxDim).id
                = tasks[h].id \o "plus" \o tasks[h].id
          /\ tasks[h1].id # tasks[h].id =>
                Aggregated(World, <<h1, h>>, MaxDim).id
                  # Aggregated(World, <<h, h1>>, MaxDim).id

\* an Aggregated of the same Task twice, updated, with the id of the Task
\* twice
SameTaskTwiceJoined ==
    /\ aggregates[1].tasks = <<1, 1>>
    /\ aggregates[1].id = "PosturalplusPostural"
    /\ aggregates[1].b = tasks[1].b \o tasks[1].b
    /\ tasks[1].b = Conf(-1)

\* the Aggregated has the gain, the A and the b of the posture task by itself
WrappedAsAlone ==
    /\ aggregates[1].lambda = tasks[2].lambda
    /\ aggregates[1].A = tasks[2].A
    /\ aggregates[1].b = tasks[2].b

\* C28: an Aggregated of a single sub-task T that was given the gain L by
\* setLambda has the gain L and, after the update of every tick of the loop,
\* the A and the b of a task by itself with the reference of T and the gain L
\* updated with the same x.
WrappedEqualsStandalone ==
    \A L \in Lambdas :
        L >= 0 =>
            /\ Aggregated_setLambda(World, 1, L).aggregates[1].lambda = L
            /\ tick > 0 => WrappedAsAlone

\* C28 for a sub-task of gain 1.0: an Aggregated of a single sub-task T of gain
\* 1.0 that was given the gain L by setLambda has the gain L and, after the
\* update of every tick of the loop, the A and the b of a task by itself with
\* the reference of T and the gain L updated with the same x.
WrappedDefaultEqualsStandalone ==
    \A L \in Lambdas :
        L >= 0 =>
            /\ Aggregated_setLambda(World, 1, L).aggregates[1].lambda = L
            /\ (tick > 0 /\ tasks[1].lambda = Unit) => WrappedAsAlone

\* the loop has gone its first tick with the gain 0.1 given to the Aggregated
\* and to the task by itself, the sub-task at gain 1.0, and both hold the
\* residual of q = 0
WrappedTicked ==
    /\ tick = 1
    /\ aggregates[1].lambda = 1 /\ tasks[2].lambda = 1
    /\ tasks[1].lambda = Unit
    /\ aggregates[1].b = Minus(q_ref, Conf(0))
    /\ tasks[2].b = Minus(q_ref, Conf(0))
    /\ q = q_ref

Abs(n) == IF n >= 0 THEN n ELSE -n

\* no component of q_ref - q grows in a tick
ResidualShrinks ==
    tick' = tick + 1 =>
        \A i \in 1..MaxDim : Abs(q_ref[i] - q'[i]) <= Abs(q_ref[i] - q[i])

\* every component of q is within 1e-4 of q_ref
Near == \A i \in 1..MaxDim : Abs(q_ref[i] - q[i]) < Tol

\* C30: in the loop of a posture task of gain 0.1, by itself or wrapped in an
\* Aggregated, no component of the residual q_ref - q, and so not its norm,
\* grows from a tick to the next, and after 1000 ticks every component of q
\* is within 1e-4 of q_ref.
LoopConverges == [][ResidualShrinks]_vars /\ [](tick = Ticks => Near)

\* the loop has gone its 1000 ticks on the Aggregated of a sub-task of gain
\* 0.1 and q has come near q_ref without reaching it
LoopDoneNear ==
    /\ tick = Ticks
    /\ tasks[1].lambda = 1
    /\ q # q_ref
    /\ Near

\* C36: checkINFTY uses no index outside a vector: in no call of initProblem
\* or solve does it index _uA by a row that _uA has not, or _u by an entry
\* that _u has not.
CheckINFTYInsideVectors ==
    \A i \in DOMAIN trace :
        /\ trace[i].ev # "fault"
        /\ trace[i].ev = "checkINFTY" => trace[i].ok

\* the seed of a warm start fits the problem s.problem
SeedFits(s) ==
    /\ s.solution.n = s.problem.nV
    /\ s.dual_solution.n = s.problem.nV + s.problem.nC
    /\ s.bounds.n = s.problem.nV
    /\ s.constraints.n = s.problem.nC

\* C37: whenever solve() makes the seeded init, the stored solution has nV
\* entries, the stored dual solution nV + nC, and the stored active sets are
\* those of a problem of nV variables and nC constraints.
WarmstartSeedFits ==
    Idle =>
        \A r \in solve(State) :
            (\E i \in DOMAIN r.trace : r.trace[i].ev = "warmstart")
                => SeedFits(State)

\* the stored data have the shape of the problem s.problem
ShapeFits(s) ==
    /\ s.H.rows = s.problem.nV /\ s.H.cols = s.problem.nV
    /\ Len(s.g) = s.problem.nV
    /\ s.A.rows = s.problem.nC /\ s.A.cols = s.problem.nV
    /\ Len(s.l) = s.problem.nV /\ Len(s.u) = s.problem.nV
    /\ Len(s.lA) = s.problem.nC /\ Len(s.uA) = s.problem.nC

\* C38: a call that has invoked the solver and returned true has handed it
\* data of the shape (nV, nC) of the problem object: H nV x nV, g of nV, A
\* nC x nV, l and u of nV, lA and uA of nC.
SolverDataFitProblem ==
    ( /\ op \in {"initProblem", "solve", "updateTask", "updateConstraints"}
      /\ ret
      /\ \E i \in DOMAIN trace : trace[i].ev = "call" )
        => ShapeFits(State)

\* no initProblem has stored anything
Uninitialized ==
    /\ H = Mat(0, 0, 0) /\ g = <<>> /\ A = Mat(0, 0, 0)
    /\ lA = <<>> /\ uA = <<>> /\ l = <<>> /\ u = <<>>

\* a call that ended in r has refused and stored nothing
Refused(r) == ~r.aborted /\ ~r.ret /\ Stored(r) = Stored(State)

\* the updates refuse every argument of at least one column or entry
UpdatesRefused ==
    (Idle /\ Uninitialized) =>
        /\ \A a \in AllInputs :
              /\ \A r \in updateTask(State, a.H, a.g) : Refused(r)
              /\ \A r \in updateConstraints(State, a.A, a.lA, a.uA) :
                    Refused(r)
              /\ \A r \in updateBounds(State, a.l, a.u) : Refused(r)
              /\ \A r \in updateProblem(State, a) : Refused(r)
        /\ \A r \in solve(State) : Stored(r) = Stored(State)

\* C39: on a back-end on which initProblem was never called, updateTask,
\* updateConstraints, updateBounds and updateProblem return false for every
\* argument that is not empty and leave every stored field empty, and only
\* initProblem ends this state.
UninitializedUntilInit ==
    /\ []UpdatesRefused
    /\ [][(Uninitialized /\ ~Uninitialized') => op' = "initProblem"]_vars

\* updateConstraints has been refused on a back-end that holds nothing
UpdateRefusedOnFresh ==
    /\ op = "updateConstraints" /\ ~ret /\ ~aborted
    /\ Uninitialized

\* C40: every attempt of solve(), and the init of initProblem, is handed the
\* configured nWSR as its budget, whatever an earlier attempt has written
\* back, and the configured nWSR changes in setnWSR only.
AttemptsBudgetConfigured ==
    /\ [](\A i \in DOMAIN trace :
            trace[i].ev = "call" => trace[i].nWSR = nWSR)
    /\ [][nWSR' # nWSR => op' = "setnWSR"]_vars

\* a Cartesian task is at hand
Standing == ~aborted /\ cartesian.built

\* C33: update(x) a second time with the same x leaves the outputs of the
\* first: the fields of the base Constraint, and A and b of the Cartesian
\* task, for the base link of index 0 and for another.
UpdateTwiceSame ==
    /\ \A x \in Confs :
          Constraint_update(Constraint_update(constraint, x), x)
            = Constraint_update(constraint, x)
    /\ Standing =>
          \A x \in Confs :
              \A r1 \in Cartesian_update(cartesian, x) :
                  \A r2 \in Cartesian_update(r1, x) :
                      (~r1.fault /\ ~r2.fault) =>
                          /\ r2.A = r1.A
                          /\ r2.b = r1.b

\* C34: after every Cartesian::update(x), in every build, A is the Jacobian of
\* the distal link at the model's configuration without the 6 columns of the
\* floating base, b is the error of 6 entries between the pose at that
\* configuration and the desired pose, and A has 6 rows as b has 6 entries.
UpdateRecomputes ==
    Standing =>
        \A x \in Confs :
            \A r \in Cartesian_update(cartesian, x) :
                ~r.fault =>
                    /\ cartesian.updateModel => r.model = x
                    /\ r.A = [rows |-> 6, cols |-> r.x_size,
                              tag |-> Position(r)]
                    /\ r.b = Error(Position(r), cartesian.desiredPose)
                    /\ r.A.rows = r.b.size /\ r.b.size = 6

\* C35: Cartesian::update(x) leaves the desired pose as the constructor or the
\* last setReference has set it, for the base link of index 0 and for
\* another, and writes the pose it computes into the actual pose.
UpdateKeepsReference ==
    Standing =>
        \A x \in Confs :
            \A r \in Cartesian_update(cartesian, x) :
                ~r.fault =>
                    /\ r.desiredPose = cartesian.desiredPose
                    /\ r.actualPose = Position(r)


\* the calls of a backend the last solve of the Stack has made
CallsMade == Len(cascade.calls)

\* C31: in a hierarchical solve the backends of the levels are called in the
\* order of the Stack, from the level of highest priority on and each at
\* most once (no level is retried); every call before the last has succeeded,
\* so that the first failure is the last call of the tick and no level after
\* it is solved; the solve reports success iff every level was called and
\* none failed, and a solution is found for the levels that succeeded only.
CascadeStopsAtFirstFailure ==
    cascade.solved =>
        /\ CallsMade >= 1 /\ CallsMade <= Len(cascade.levels)
        /\ \A i \in 1..CallsMade : cascade.calls[i].level = i
        /\ \A i \in 1..(CallsMade - 1) : cascade.calls[i].ok
        /\ cascade.ok = (/\ CallsMade = Len(cascade.levels)
                         /\ cascade.calls[CallsMade].ok)
        /\ Len(cascade.found) =
               IF cascade.calls[CallsMade].ok THEN CallsMade
               ELSE CallsMade - 1

\* a Stack of two levels or more whose first level has failed: one call was
\* made and the solve has reported the failure
FailedAtFirstLevel ==
    /\ cascade.solved /\ ~cascade.ok
    /\ Len(cascade.levels) >= 2
    /\ cascade.calls = <<[level |-> 1, ok |-> FALSE]>>
    /\ cascade.found = <<>>

\* C32: after a successful hierarchical solve of a Stack of two levels the
\* vector returned is the solution found for the lower level, it leaves the
\* residual of the upper level as the upper level's own solution left it,
\* no vector achieves a smaller cost of the upper level, and it satisfies
\* the equality A x = b of the upper level whenever some vector does.
PriorityPreserved ==
    (cascade.solved /\ cascade.ok /\ Len(cascade.levels) = 2) =>
        LET upper == cascade.levels[1]
        IN  /\ cascade.x = cascade.found[2]
            /\ Minus(Times(upper.A, cascade.x), upper.b)
                 = Minus(Times(upper.A, cascade.found[1]), upper.b)
            /\ \A v \in Grid : Cost(upper, cascade.x) <= Cost(upper, v)
            /\ (\E v \in Grid : Times(upper.A, v) = upper.b)
                 => Times(upper.A, cascade.x) = upper.b

\* a solved Stack of two levels in conflict: the vector returned satisfies
\* the equality of the upper level and does not minimize the cost of the
\* lower one
ConflictResolved ==
    /\ cascade.solved /\ cascade.ok /\ Len(cascade.levels) = 2
    /\ Times(cascade.levels[1].A, cascade.x) = cascade.levels[1].b
    /\ \E v \in Grid :
         Cost(cascade.levels[2], v) < Cost(cascade.levels[2], cascade.x)

====
